---------------------------- MODULE Spec2Model ----------------------------
(***************************************************************************)
(* Model of the RAG document-intelligence backend (backend/main.py,        *)
(* backend/document_processors.py, backend/advanced_excel_processor.py,    *)
(* backend/database/postgres_manager.py).                                  *)
(*                                                                         *)
(* Five specifications share the module:                                   *)
(*   SpecChunk   the loop of chunk_text, one action per loop iteration;    *)
(*   Spec        upload / query / delete by two users over the relational  *)
(*               store and the vector index;                               *)
(*   SpecIngest  one user uploading files of every kind, with an           *)
(*               embedding service that may fail at any chunk;             *)
(*   SpecAnswer  one user querying up to three chunks under every persona; *)
(*   SpecSheet   the analyses of advanced_excel_processor.py on one sheet   *)
(*               of a workbook, one action per analysis.                   *)
(***************************************************************************)
EXTENDS Integers, Sequences, FiniteSets, TLC

VARIABLES
    \* ---- chunk_text(text, chunk_size, overlap): main.py 95-122
    text,          \* the input string, a sequence of one-character strings
    chunk_size,
    overlap,
    start,         \* the loop variable `start` (may become negative)
    chunks,        \* the list `chunks` built so far
    pc,            \* "idle" | "loop" | "done" | "raised" | "diverged"
    visited,       \* history: the values `start` had at earlier loop heads
    \* ---- relational store (database/create_tables.py, postgres_manager.py)
    users,             \* rows of table users: [id, email]
    documents,         \* rows of table documents
    document_chunks,   \* rows of table document_chunks
    chat_sessions,     \* rows of table chat_sessions: [id, user_id]
    chat_messages,     \* rows of table chat_messages, in insertion order
    serial,            \* the SERIAL sequences: [users, documents, chat_sessions]
    \* ---- vector index (the Chroma collection of main.py 41-45)
    collection,        \* entries [id, embedding, document, metadata]
    \* ---- the last HTTP exchange
    request,           \* the request the last handler served
    response,          \* its response: [status, detail, body]
    calls,             \* history: the collaborator calls that handler made
    uploader,          \* history: doc id -> e-mail of the upload that made it
    connections,       \* the running get_or_create_user calls, one per connection
    \* ---- one sheet in analyze_excel_advanced: advanced_excel_processor.py 64-96
    df,                \* the sheet's DataFrame: a sequence of columns
    analysis_results,  \* what the analyses of the sheet have returned so far
    sheet_pc           \* "idle" | "kpis" | "trends" | "anomalies" | "insights" | "done"

chunkVars == <<text, chunk_size, overlap, start, chunks, pc, visited>>

storeVars == <<users, documents, document_chunks, chat_sessions, chat_messages, serial>>

apiVars == <<storeVars, collection, request, response, calls, uploader, connections>>

sheetVars == <<df, analysis_results, sheet_pc>>

vars == <<chunkVars, apiVars, sheetVars>>

(***************************************************************************)
(* Bounds of the model.                                                    *)
(***************************************************************************)
MaxTextLen == 5
MaxChunkSize == 4
MaxFill == 1
MaxTableGap == 5
MaxTableChunk == 6
MaxUnit == 2
MaxTrendRows == 4
MaxAnomalyRows == 6
MaxCols == 2

(***************************************************************************)
(* Small helpers.                                                          *)
(***************************************************************************)
SetMax(S) == CHOOSE x \in S : \A y \in S : y <= x
SetMin(S) == CHOOSE x \in S : \A y \in S : x <= y
Maximum(a, b) == IF a >= b THEN a ELSE b
Minimum(a, b) == IF a <= b THEN a ELSE b

(***************************************************************************)
(* Characters.  '.!?\n' are the sentence terminators of the backward scan; *)
(* str.strip() removes the whitespace characters.                          *)
(***************************************************************************)
Terminators == {".", "!", "?", "\n"}
Whitespace == {" ", "\t", "\n", "\r"}
Alphabet == {"a", " ", ".", "=", "\n"}
Marker == <<"=", "=", "=">>

(***************************************************************************)
(* Python's sequence semantics on a string s (TLA+ sequences are 1-based,  *)
(* Python indices 0-based; a negative index counts from the end).          *)
(***************************************************************************)
\* a slice bound i clamped the way s[a:b] clamps it
PyNorm(i, n) == IF i < 0 THEN Maximum(i + n, 0) ELSE Minimum(i, n)

\* s[a:b]
PySlice(s, a, b) ==
    LET lo == PyNorm(a, Len(s))
        hi == PyNorm(b, Len(s))
    IN  IF lo >= hi THEN <<>> ELSE SubSeq(s, lo + 1, hi)

\* s[i] is defined (no IndexError)
PyIndexOk(s, i) == -Len(s) <= i /\ i < Len(s)

\* s[i]
PyAt(s, i) == IF i < 0 THEN s[i + Len(s) + 1] ELSE s[i + 1]

\* "===" starts at 0-based position p of s
MarkerAt(s, p) ==
    /\ p >= 0
    /\ p + 3 <= Len(s)
    /\ SubSeq(s, p + 1, p + 3) = Marker

\* "===" in s
HasMarker(s) == \E p \in 0..(Len(s) - 3) : MarkerAt(s, p)

\* s.find("===", from): the lowest position >= from, or -1
PyFind(s, from) ==
    LET f == PyNorm(from, Len(s))
        hits == {p \in f..(Len(s) - 3) : MarkerAt(s, p)}
    IN  IF hits = {} THEN -1 ELSE SetMin(hits)

\* s.lstrip(): the trailing whitespace stays
StripLeft(s) ==
    LET keep == {i \in 1..Len(s) : s[i] \notin Whitespace}
    IN  IF keep = {} THEN <<>> ELSE SubSeq(s, SetMin(keep), Len(s))

\* s.strip()
Strip(s) ==
    LET keep == {i \in 1..Len(s) : s[i] \notin Whitespace}
    IN  IF keep = {} THEN <<>> ELSE SubSeq(s, SetMin(keep), SetMax(keep))

(***************************************************************************)
(* One iteration of the while loop of chunk_text, main.py 101-120.         *)
(***************************************************************************)
Lookback == 200

\* the snap to the next marker without the test of its distance
MarkerEndAlways(t, cs, st) ==
    LET end == st + cs
        table_end == PyFind(t, end)
    IN  IF table_end # -1 THEN table_end ELSE end

\* main.py 104-107: the window holds a marker; look for the next marker at
\* or after the default end and snap to it when it is near enough
MarkerEnd(t, cs, st) ==
    LET end == st + cs
        table_end == PyFind(t, end)
    IN  IF table_end # -1 /\ 2 * (table_end - st) < 3 * cs
        THEN table_end
        ELSE end

\* main.py 111: range(end, max(start + chunk_size - 200, start), -1)
ScanRange(cs, st) == (Maximum(st + cs - Lookback, st) + 1)..(st + cs)

\* main.py 111-114: the positions of the scan that hold a terminator
ScanHits(t, cs, st) ==
    {i \in ScanRange(cs, st) : PyIndexOk(t, i) /\ PyAt(t, i) \in Terminators}

\* main.py 112: text[i] raises IndexError before any terminator is found
ScanRaises(t, cs, st) ==
    /\ ScanHits(t, cs, st) = {}
    /\ \E i \in ScanRange(cs, st) : ~PyIndexOk(t, i)

\* a backward scan over the whole window
SentenceEndWholeWindow(t, cs, st) ==
    LET hits == {i \in (st + 1)..(st + cs) : PyIndexOk(t, i) /\ PyAt(t, i) \in Terminators}
    IN  IF hits = {} THEN st + cs ELSE SetMax(hits) + 1

\* main.py 111-114: end = i + 1 for the first terminator of the scan
SentenceEnd(t, cs, st) ==
    IF ScanHits(t, cs, st) = {}
    THEN st + cs
    ELSE SetMax(ScanHits(t, cs, st)) + 1

\* a window with a marker that falls back to the backward scan when it is
\* not snapped
WindowEndScanAfterMarker(t, cs, st) ==
    IF HasMarker(PySlice(t, st, st + cs)) /\ MarkerEnd(t, cs, st) # st + cs
    THEN MarkerEnd(t, cs, st)
    ELSE IF st + cs < Len(t)
         THEN SentenceEnd(t, cs, st)
         ELSE st + cs

\* main.py 101-114: the end of the window that starts at st
WindowEnd(t, cs, st) ==
    IF HasMarker(PySlice(t, st, st + cs))
    THEN MarkerEnd(t, cs, st)
    ELSE IF st + cs < Len(t)
         THEN SentenceEnd(t, cs, st)
         ELSE st + cs

\* main.py 104, 110-112: the iteration raises
IterRaises(t, cs, st) ==
    /\ ~HasMarker(PySlice(t, st, st + cs))
    /\ st + cs < Len(t)
    /\ ScanRaises(t, cs, st)

\* main.py 116: chunk = text[start:end].strip()
WindowChunk(t, cs, st) == Strip(PySlice(t, st, WindowEnd(t, cs, st)))

\* main.py 117-118: if chunk: chunks.append(chunk)
AppendChunk(cks, chunk) == IF chunk # <<>> THEN Append(cks, chunk) ELSE cks

\* main.py 120: start = end - overlap
NextStart(t, cs, ov, st) == WindowEnd(t, cs, st) - ov

(***************************************************************************)
(* Inputs of chunk_text: every string over Alphabet up to MaxTextLen, and  *)
(* strings with two markers and short fillers around them.                 *)
(***************************************************************************)
StringsUpTo(n) == UNION {[1..k -> Alphabet] : k \in 0..n}

ShortTexts == StringsUpTo(MaxTextLen)

MarkerTexts ==
    {Marker \o m \o Marker \o tl : m \in StringsUpTo(MaxFill), tl \in StringsUpTo(MaxFill)}

Texts == ShortTexts \cup MarkerTexts

\* two markers with up to MaxTableGap characters of a table between them
TableTexts ==
    {Marker \o [i \in 1..k |-> "a"] \o Marker \o tl :
        k \in 0..MaxTableGap, tl \in StringsUpTo(MaxFill)}

\* 0 < overlap < chunk_size, for the table texts
TableParams ==
    {p \in (2..MaxTableChunk) \X (1..MaxTableChunk) : p[2] < p[1]}

\* 0 < overlap < chunk_size
ChunkParams ==
    {p \in (2..MaxChunkSize) \X (1..MaxChunkSize) : p[2] < p[1]}

(***************************************************************************)
(* chunk_text as a function, for the callers that run it to completion.    *)
(* ChunkFrom is the loop started at `st` with `cks` collected so far; the  *)
(* upload path calls it with chunk sizes for which start grows on every    *)
(* pass.                                                                   *)
(***************************************************************************)
RECURSIVE ChunkFrom(_, _, _, _, _)
ChunkFrom(t, cs, ov, st, cks) ==
    IF st < Len(t)
    THEN ChunkFrom(t, cs, ov, NextStart(t, cs, ov, st),
                   AppendChunk(cks, WindowChunk(t, cs, st)))
    ELSE cks

ChunkText(t, cs, ov) == ChunkFrom(t, cs, ov, 0, <<>>)

(***************************************************************************)
(* Uploaded files.  A filename is the sequence of its parts between the    *)
(* dots (<<"notes", "txt">> is notes.txt, <<"README">> has no dot); a       *)
(* content is what its bytes are (`format`) and the text an extractor      *)
(* reads out of them (`text`).                                             *)
(***************************************************************************)
LongLen == 1100

\* a short note: one chunk
NoteText == <<"a", ".", " ", "a">>

\* a text longer than one window, with one sentence end inside the last
\* Lookback characters of the first window
LongText == [i \in 1..LongLen |-> IF i = LongLen - Lookback THEN "." ELSE "a"]

\* a shorter note: one chunk
MemoText == <<"a", ".", "a">>

MemoFile ==
    [filename |-> <<"memo", "md">>, content_type |-> "text/markdown",
     content |-> [format |-> "utf8", text |-> MemoText]]
NoteFile ==
    [filename |-> <<"notes", "txt">>, content_type |-> "text/plain",
     content |-> [format |-> "utf8", text |-> NoteText]]
LongFile ==
    [filename |-> <<"long", "TXT">>, content_type |-> "text/plain",
     content |-> [format |-> "utf8", text |-> LongText]]
EmptyFile ==
    [filename |-> <<"empty", "txt">>, content_type |-> "text/plain",
     content |-> [format |-> "utf8", text |-> <<>>]]
ExeFile ==
    [filename |-> <<"tool", "exe">>, content_type |-> "application/octet-stream",
     content |-> [format |-> "binary", text |-> <<"M", "Z">>]]
BrokenXlsx ==
    [filename |-> <<"broken", "xlsx">>, content_type |-> "application/octet-stream",
     content |-> [format |-> "binary", text |-> <<"P", "K">>]]
BrokenPdf ==
    [filename |-> <<"paper", "pdf">>, content_type |-> "application/pdf",
     content |-> [format |-> "binary", text |-> <<"%">>]]
SheetFile ==
    [filename |-> <<"book", "xlsx">>, content_type |-> "application/vnd.ms-excel",
     content |-> [format |-> "workbook", text |-> <<"=", "=", "=", "a", "=", "=", "=", "\n", "a">>]]

\* a workbook with a year as the header of a text column
YearSheetFile ==
    [filename |-> <<"years", "xlsx">>, content_type |-> "application/octet-stream",
     content |-> [format |-> "workbook_int_header",
                  text |-> <<"=", "=", "=", "a", "=", "=", "=", "\n", "a", "a">>]]

\* a text file that its client declares as an Excel workbook
MislabelledNote ==
    [filename |-> <<"notes", "txt">>, content_type |-> "application/vnd.ms-excel",
     content |-> [format |-> "utf8", text |-> NoteText]]

\* str.lower() on the filename parts and content types the model uses
Lower(s) ==
    CASE s = "TXT" -> "txt"
      [] s = "XLSX" -> "xlsx"
      [] s = "PDF" -> "pdf"
      [] OTHER -> s

\* document_processors.py 133
FileExt(filename) ==
    IF Len(filename) > 1 THEN Lower(filename[Len(filename)]) ELSE ""

\* document_processors.py 136, 140, 144: 'excel' / 'pdf' / 'text' in content_type.lower()
TypeNames(word) ==
    CASE word = "excel" -> {"application/vnd.ms-excel"}
      [] word = "pdf" -> {"application/pdf"}
      [] word = "text" -> {"text/plain", "text/markdown"}
      [] OTHER -> {}

InContentType(word, content_type) == Lower(content_type) \in TypeNames(word)

\* dict.get(key, default) and `key in dict` on a metadata map
Has(m, key) == key \in DOMAIN m
Get(m, key, default) == IF Has(m, key) THEN m[key] ELSE default

\* The formats of a content that is a workbook pandas can open.  In a
\* "workbook_int_header" a column of text cells has the number 2023 as its
\* header: _analyze_sheet_structure takes it for a time column
\* (advanced_excel_processor.py 118-120) and ', '.join raises TypeError on
\* it (advanced_excel_processor.py 136).
Workbooks == {"workbook", "workbook_int_header"}

JoinError == <<"sequence item 0: expected str instance, int found">>
ZipError == <<"File is not a zip file">>

\* advanced_excel_processor.py 42-107: every exception is caught inside and
\* returned as an error result
AnalyzeExcelAdvanced(content) ==
    IF content.format = "workbook"
    THEN [text |-> content.text,
          metadata |-> [file_type |-> "excel", sheets |-> <<"Sheet1">>,
                        kpi_analysis |-> <<>>, trend_analysis |-> <<>>,
                        comparative_analysis |-> <<>>, business_insights |-> <<>>,
                        numerical_summary |-> <<>>, anomaly_detection |-> <<>>,
                        forecasting_hints |-> <<>>]]
    ELSE LET e == IF content.format \in Workbooks THEN JoinError ELSE ZipError
         IN  [text |-> <<"Virhe syvennetyssä Excel-analyysissä: ">> \o e,
              metadata |-> [file_type |-> "excel", error |-> e]]

\* document_processors.py 28-97: the basic summarizer
ProcessExcelBasic(content) ==
    IF content.format \in Workbooks
    THEN [text |-> content.text,
          metadata |-> [file_type |-> "excel", sheets |-> <<"Sheet1">>,
                        total_sheets |-> 1, numerical_data |-> <<>>,
                        has_analytics |-> TRUE, analysis_type |-> "basic"]]
    ELSE [text |-> <<"VIRHE Excel-tiedoston käsittelyssä: ">> \o ZipError,
          metadata |-> [file_type |-> "excel", error |-> ZipError]]

\* document_processors.py 16-97: with the advanced analyzer imported its
\* result is returned as it is (line 23); the except of line 24 is never
\* entered because analyze_excel_advanced does not raise
ProcessExcel(content, advanced) ==
    IF advanced THEN AnalyzeExcelAdvanced(content) ELSE ProcessExcelBasic(content)

\* document_processors.py 99-128
ProcessPdf(content) ==
    IF content.format = "pdfdoc"
    THEN [text |-> content.text,
          metadata |-> [file_type |-> "pdf", page_count |-> 1,
                        character_count |-> Len(content.text)]]
    ELSE [text |-> <<"VIRHE PDF-tiedoston käsittelyssä: ", "EOF marker not found">>,
          metadata |-> [file_type |-> "pdf", error |-> <<"EOF marker not found">>]]

\* document_processors.py 144-156: utf-8, then latin-1, which decodes any bytes
ProcessText(content) ==
    IF content.format = "utf8"
    THEN [text |-> content.text,
          metadata |-> [file_type |-> "text", character_count |-> Len(content.text)]]
    ELSE [text |-> content.text,
          metadata |-> [file_type |-> "text", character_count |-> Len(content.text),
                        encoding |-> "latin-1"]]

\* document_processors.py 158-161
ProcessUnsupported(file_ext) ==
    [text |-> <<"Tiedostotyyppiä '", file_ext, "' ei tueta. Tuetut: TXT, MD, PDF, XLSX, XLS">>,
     metadata |-> [file_type |-> "unsupported", extension |-> file_ext]]

\* document_processors.py 130-161
process_file_by_type(file, advanced) ==
    LET file_ext == FileExt(file.filename)
    IN  IF file_ext \in {"xlsx", "xls"} \/ InContentType("excel", file.content_type)
        THEN ProcessExcel(file.content, advanced)
        ELSE IF file_ext = "pdf" \/ InContentType("pdf", file.content_type)
        THEN ProcessPdf(file.content)
        ELSE IF file_ext \in {"txt", "md"} \/ InContentType("text", file.content_type)
        THEN ProcessText(file.content)
        ELSE ProcessUnsupported(file_ext)

(***************************************************************************)
(* The embedding service and the vector index.  An embedding is one of a   *)
(* few abstract vectors; Distance is the cosine distance between two of    *)
(* them in units of 1/10000 (0 .. 20000).                                  *)
(***************************************************************************)
Embeddings == {"e0", "e1", "e2"}

\* main.py 84-93: the embedding service is a function of the text it is
\* given; the model tells texts apart by their length
TextEmbedding(t) ==
    CASE Len(t) % 3 = 0 -> "e0"
      [] Len(t) % 3 = 1 -> "e1"
      [] OTHER -> "e2"

Unit == 10 * 1000

Distance(a, b) ==
    CASE a = b -> 0
      [] {a, b} = {"e0", "e1"} -> 3338
      [] {a, b} = {"e1", "e2"} -> 6663
      [] OTHER -> 12500

\* the order of two index ids <<doc_id, chunk index>>
IdBefore(x, y) == x[1] < y[1] \/ (x[1] = y[1] /\ x[2] <= y[2])

\* x is returned before y: nearer first, equal distances in id order
Nearer(query_embedding, x, y) ==
    LET dx == Distance(query_embedding, x.embedding)
        dy == Distance(query_embedding, y.embedding)
    IN  dx < dy \/ (dx = dy /\ IdBefore(x.id, y.id))

RECURSIVE NearestOf(_, _, _)
NearestOf(entries, query_embedding, n_results) ==
    IF n_results <= 0 \/ entries = {}
    THEN <<>>
    ELSE LET first == CHOOSE x \in entries :
                          \A y \in entries : Nearer(query_embedding, x, y)
         IN  <<first>> \o NearestOf(entries \ {first}, query_embedding, n_results - 1)

\* the index query without its where clause
WhereUserAll(coll, user_id) == coll

\* main.py 282: where={"user_id": user_id}
WhereUser(coll, user_id) == {e \in coll : e.metadata.user_id = user_id}

\* main.py 279-283: collection.query(query_embeddings, n_results, where)
CollectionQuery(coll, query_embedding, n_results, user_id) ==
    NearestOf(WhereUser(coll, user_id), query_embedding, n_results)

(***************************************************************************)
(* Numbers of the query path, in units of 1/10000.                         *)
(***************************************************************************)
\* round(num/den, 3): to the nearest multiple of 10 units, halves to even
Round3(num, den) ==
    LET step == 10 * den
        q == num \div step
        r == num % step
    IN  IF 2 * r < step THEN 10 * q
        ELSE IF 2 * r > step THEN 10 * (q + 1)
        ELSE IF q % 2 = 0 THEN 10 * q ELSE 10 * (q + 1)

\* the conversion without its lower bound
SimilarityUnclamped(distance) == Unit - distance

\* main.py 303: confidence = max(0, 1 - distance)
Similarity(distance) == Maximum(0, Unit - distance)

\* main.py 318: round(confidence, 3)
SourceConfidence(distance) == Round3(Similarity(distance), 1)

RECURSIVE SumConfidence(_)
SumConfidence(sources) ==
    IF sources = <<>> THEN 0
    ELSE sources[1].confidence + SumConfidence(Tail(sources))

(***************************************************************************)
(* The relational store: postgres_manager.py.                              *)
(***************************************************************************)
\* a failed collaborator call, in place of its result; an absent id is 0
None == "None"

\* postgres_manager.py 32-36: SELECT id FROM users WHERE email = %s
UserRows(email) == {u \in users : u.email = email}

\* postgres_manager.py 27-51: the id get_or_create_user returns
get_or_create_user(email) ==
    IF UserRows(email) # {}
    THEN (CHOOSE u \in UserRows(email) : TRUE).id
    ELSE serial.users

\* postgres_manager.py 45-51: the users table after get_or_create_user
UsersAfter(email) ==
    IF UserRows(email) # {}
    THEN users
    ELSE users \cup {[id |-> serial.users, email |-> email]}

\* the SERIAL of users after get_or_create_user
UserSerialAfter(email) ==
    IF UserRows(email) # {} THEN serial.users ELSE serial.users + 1

\* postgres_manager.py 124-136
get_document_owner(doc_id) ==
    LET rows == {d \in documents : d.id = doc_id}
    IN  IF rows = {} THEN 0 ELSE (CHOOSE d \in rows : TRUE).user_id

\* postgres_manager.py 138-165
get_document_info(doc_id) == CHOOSE d \in documents : d.id = doc_id

\* a row whose chunk_count waits for the indexing to finish
DocumentRowPending(doc_id, filename, file_type, user_id, chunk_count) ==
    [id |-> doc_id, filename |-> filename, file_type |-> file_type,
     user_id |-> user_id, chunk_count |-> 0]

\* postgres_manager.py 54-67: the row save_document_metadata inserts
DocumentRow(doc_id, filename, file_type, user_id, chunk_count) ==
    [id |-> doc_id, filename |-> filename, file_type |-> file_type,
     user_id |-> user_id, chunk_count |-> chunk_count]

\* postgres_manager.py 69-78: the rows save_document_chunks inserts
ChunkRows(document_id, cks) ==
    {[document_id |-> document_id, chunk_index |-> i - 1, chunk_text |-> cks[i]] :
        i \in 1..Len(cks)}

\* postgres_manager.py 227-248: the row save_message inserts
MessageRow(id, session_id, message_type, content, confidence_score) ==
    [id |-> id, session_id |-> session_id, message_type |-> message_type,
     content |-> content, confidence_score |-> confidence_score]

(***************************************************************************)
(* Error texts.  A text is a sequence of fragments.  str() of an           *)
(* HTTPException is "<status>: <detail>" (starlette's __str__).            *)
(***************************************************************************)
EmbeddingError == <<"OpenAI API Error">>
GenerationError == <<"model overloaded">>
ForeignKeyError == <<"violates foreign key constraint">>
ZeroDivisionError == <<"division by zero">>

HttpStr(status, detail) ==
    <<CASE status = 400 -> "400: " [] status = 500 -> "500: " [] OTHER -> "?: ">> \o detail

\* main.py 93
EmbeddingFailedDetail == <<"Embedding generation failed: ">> \o EmbeddingError

\* main.py 191
ProcessingFailedDetail(error) == <<"File processing failed: ">> \o error

\* main.py 252-254
UploadFailed(e) == [status |-> 500, detail |-> <<"Upload failed: ">> \o e, body |-> <<>>]

\* a handler that answers every failure with the same detail
QueryFailedOpaque(e) == [status |-> 500, detail |-> <<"Query failed">>, body |-> <<>>]

\* main.py 453-455
QueryFailed(e) == [status |-> 500, detail |-> <<"Query failed: ">> \o e, body |-> <<>>]

\* extract: the analyzer tier in use and the metadata map the extraction
\* returned to the upload handler
NoCalls == [embed |-> 0, add |-> 0, query |-> <<>>, generate |-> <<>>, extract |-> <<>>]

(***************************************************************************)
(* POST /upload: main.py 167-254.                                          *)
(***************************************************************************)
ExcelChunkSize == 1500
TextChunkSize == 1000
UploadOverlap == 300

\* main.py 194
UploadChunkSize(metadata) ==
    IF Get(metadata, "file_type", None) = "excel" THEN ExcelChunkSize ELSE TextChunkSize

\* main.py 186-195: the chunks of an uploaded file
FileChunks(file, advanced) ==
    LET processed == process_file_by_type(file, advanced)
    IN  ChunkText(processed.text, UploadChunkSize(processed.metadata), UploadOverlap)

\* FileChunks of the files the model uploads, evaluated once
KnownFiles == {YearSheetFile, MislabelledNote, NoteFile, MemoFile, LongFile, EmptyFile, ExeFile, BrokenXlsx, BrokenPdf, SheetFile}
ChunksOfFile == [file \in KnownFiles |-> [advanced \in BOOLEAN |-> FileChunks(file, advanced)]]

\* entries numbered from 1
IndexEntryOneBased(doc_id, i, chunk, embedding, filename, user_id, metadata) ==
    [id |-> <<doc_id, i + 1>>,
     embedding |-> embedding,
     document |-> chunk,
     metadata |-> [source |-> filename, chunk_id |-> i + 1, doc_id |-> doc_id,
                   user_id |-> user_id,
                   file_type |-> Get(metadata, "file_type", "unknown"),
                   has_numerical_data |-> Get(metadata, "has_analytics", FALSE)]]

\* main.py 217-232: the entry collection.add stores for chunk i (0-based)
IndexEntry(doc_id, i, chunk, embedding, filename, user_id, metadata) ==
    [id |-> <<doc_id, i>>,
     embedding |-> embedding,
     document |-> chunk,
     metadata |-> [source |-> filename, chunk_id |-> i, doc_id |-> doc_id,
                   user_id |-> user_id,
                   file_type |-> Get(metadata, "file_type", "unknown"),
                   has_numerical_data |-> Get(metadata, "has_analytics", FALSE)]]

\* main.py 236-250
UploadOk(doc_id, cks, metadata) ==
    [status |-> 200, detail |-> <<>>,
     body |-> [document_id |-> doc_id, chunks_created |-> Len(cks),
               file_type |-> Get(metadata, "file_type", None),
               has_numerical_data |-> Get(metadata, "has_analytics", FALSE)]]

\* an embedding failure that is skipped instead of raised
EmbeddingNeverRaises(cks, n_embedded) == FALSE

\* a loop that asks for one more embedding after the last chunk
EmbeddingRaisesAfterLast(cks, n_embedded) == n_embedded <= Len(cks)

\* main.py 214-215: get_embedding raises at the first chunk the service
\* gives no embedding for
EmbeddingRaises(cks, n_embedded) == n_embedded < Len(cks)

\* The handler.  The embedding service answers the first n_embedded calls;
\* when that is fewer than the chunks, its next call fails.
Upload(user_email, file, advanced, n_embedded) ==
    LET user_id == get_or_create_user(user_email)
        processed == process_file_by_type(file, advanced)
        metadata == processed.metadata
        cks == ChunksOfFile[file][advanced]
        doc_id == serial.documents
        extract_call == [advanced |-> advanced, metadata |-> metadata]
    IN  /\ pc = "idle"
        /\ request' = [op |-> "upload", user_email |-> user_email,
                       filename |-> file.filename, content_type |-> file.content_type]
        /\ users' = UsersAfter(user_email)
        /\ IF Has(metadata, "error")
           THEN \* main.py 190-191, caught at 252
                /\ n_embedded = 0
                /\ response' = UploadFailed(HttpStr(400, ProcessingFailedDetail(metadata.error)))
                /\ calls' = [NoCalls EXCEPT !.extract = <<extract_call>>]
                /\ serial' = [serial EXCEPT !.users = UserSerialAfter(user_email)]
                /\ UNCHANGED <<documents, document_chunks, collection, uploader>>
           ELSE /\ n_embedded <= Len(cks)
                /\ documents' = documents \cup
                       {DocumentRow(doc_id, file.filename, Get(metadata, "file_type", "unknown"),
                                    user_id, Len(cks))}
                /\ document_chunks' = document_chunks \cup ChunkRows(doc_id, cks)
                /\ collection' = collection \cup
                       {IndexEntry(doc_id, i - 1, cks[i], TextEmbedding(cks[i]), file.filename,
                                   user_id, metadata) : i \in 1..n_embedded}
                /\ serial' = [serial EXCEPT !.users = UserSerialAfter(user_email),
                                            !.documents = doc_id + 1]
                /\ uploader' = [d \in DOMAIN uploader \cup {doc_id} |->
                                   IF d = doc_id THEN user_email ELSE uploader[d]]
                /\ calls' = [NoCalls EXCEPT
                               !.embed = IF EmbeddingRaises(cks, n_embedded)
                                         THEN n_embedded + 1 ELSE n_embedded,
                               !.add = n_embedded,
                               !.extract = <<extract_call>>]
                /\ response' = IF EmbeddingRaises(cks, n_embedded)
                               THEN UploadFailed(HttpStr(500, EmbeddingFailedDetail))
                               ELSE UploadOk(doc_id, cks, metadata)
        /\ UNCHANGED <<chat_sessions, chat_messages, connections, chunkVars, sheetVars>>

(***************************************************************************)
(* POST /query: main.py 256-455.                                           *)
(***************************************************************************)
NoDocumentsAnswer == "En löydä relevanttia tietoa ladatuista dokumenteista."

\* main.py 326-416: the instruction template a bot_mode selects
SystemPrompt(bot_mode) ==
    CASE bot_mode = "friendly" -> "DocBot"
      [] bot_mode = "analytical" -> "analyyttinen AI-tutkija"
      [] bot_mode = "creative" -> "luova AI-ajattelija"
      [] OTHER -> "konsulttimainen AI-analyytikko"

\* main.py 419-424, 433: temperature_map.get(bot_mode, 0.3), in tenths
Temperature(bot_mode) ==
    CASE bot_mode = "friendly" -> 5
      [] bot_mode = "analytical" -> 2
      [] bot_mode = "creative" -> 8
      [] bot_mode = "professional" -> 3
      [] OTHER -> 3

\* a number of results that depends on the persona
NResultsByMode(max_results, bot_mode) ==
    IF bot_mode = "analytical" THEN max_results + 1 ELSE max_results

\* main.py 281: n_results=request.max_results
NResults(max_results, bot_mode) == max_results

\* main.py 282: the user filter of the index query
QueryFilter(user_id, bot_mode) == user_id

\* main.py 315-321: the source reported for one hit
SourceOf(hit) ==
    [source |-> hit.metadata.source,
     chunk_id |-> hit.metadata.chunk_id,
     confidence |-> SourceConfidence(hit.distance),
     file_type |-> hit.metadata.file_type,
     has_numerical_data |-> hit.metadata.has_numerical_data]

\* main.py 298-321: sources in the order of the index results
SourcesOf(hits) == [i \in 1..Len(hits) |-> SourceOf(hits[i])]

\* main.py 279-283, 298-302: documents, metadatas and distances of the results
HitsOf(coll, query_embedding, n_results, user_id) ==
    LET found == CollectionQuery(coll, query_embedding, n_results, user_id)
    IN  [i \in 1..Len(found) |->
            [id |-> found[i].id, document |-> found[i].document,
             metadata |-> found[i].metadata,
             distance |-> Distance(query_embedding, found[i].embedding)]]

\* the empty-result test left out
NoResultsNever(hits) == FALSE

\* main.py 285: if not results['documents'][0]
NoResults(hits) == hits = <<>>

\* main.py 286-292
NoDocumentsResponse(session_id) ==
    [status |-> 200, detail |-> <<>>,
     body |-> [answer |-> NoDocumentsAnswer, sources |-> <<>>, confidence |-> 0,
               session_id |-> session_id, message_id |-> 0]]

\* the response with the sum of the source confidences for their mean
QueryOkSum(answer, sources, session_id, message_id) ==
    [status |-> 200, detail |-> <<>>,
     body |-> [answer |-> answer, sources |-> sources,
               confidence |-> Round3(SumConfidence(sources), 1),
               session_id |-> session_id, message_id |-> message_id]]

\* main.py 437, 445-451
QueryOk(answer, sources, session_id, message_id) ==
    [status |-> 200, detail |-> <<>>,
     body |-> [answer |-> answer, sources |-> sources,
               confidence |-> Round3(SumConfidence(sources), Len(sources)),
               session_id |-> session_id, message_id |-> message_id]]

\* The handler.  embed_ok: the embedding service answers (otherwise its call
\* fails); `answer` is what the generation service returns (None: the call
\* fails).
Query(user_email, question, max_results, session_id, bot_mode, embed_ok, answer) ==
    LET user_id == get_or_create_user(user_email)
        embedding == IF embed_ok THEN TextEmbedding(question) ELSE None
        \* main.py 266-272
        sid == IF session_id # 0 THEN session_id ELSE serial.chat_sessions
        hits == HitsOf(collection, embedding, NResults(max_results, bot_mode),
                       QueryFilter(user_id, bot_mode))
        sources == SourcesOf(hits)
        index_call == [query_embedding |-> embedding,
                       n_results |-> NResults(max_results, bot_mode),
                       where_user_id |-> QueryFilter(user_id, bot_mode),
                       ids |-> [i \in 1..Len(hits) |-> hits[i].id]]
        generate_call == [system_prompt |-> SystemPrompt(bot_mode),
                          temperature |-> Temperature(bot_mode)]
        message_id == Len(chat_messages) + 2
    IN  /\ pc = "idle"
        /\ request' = [op |-> "query", user_email |-> user_email, question |-> question,
                       max_results |-> max_results, session_id |-> session_id,
                       bot_mode |-> bot_mode]
        /\ users' = UsersAfter(user_email)
        /\ chat_sessions' = IF session_id # 0 THEN chat_sessions
                            ELSE chat_sessions \cup {[id |-> sid, user_id |-> user_id]}
        /\ serial' = [serial EXCEPT !.users = UserSerialAfter(user_email),
                                    !.chat_sessions = IF session_id # 0 THEN @ ELSE @ + 1]
        /\ IF ~embed_ok
           THEN \* main.py 275, 93, caught at 453
                /\ answer = None
                /\ response' = QueryFailed(HttpStr(500, EmbeddingFailedDetail))
                /\ calls' = [NoCalls EXCEPT !.embed = 1]
                /\ UNCHANGED chat_messages
           ELSE IF NoResults(hits)
           THEN \* main.py 285-292
                /\ answer = None
                /\ response' = NoDocumentsResponse(sid)
                /\ calls' = [NoCalls EXCEPT !.embed = 1, !.query = <<index_call>>]
                /\ UNCHANGED chat_messages
           ELSE IF answer = None
           THEN \* main.py 427-434 raises, caught at 453
                /\ response' = QueryFailed(GenerationError)
                /\ calls' = [NoCalls EXCEPT !.embed = 1, !.query = <<index_call>>,
                                            !.generate = <<generate_call>>]
                /\ UNCHANGED chat_messages
           ELSE IF Len(sources) = 0
           THEN \* main.py 437 divides by len(sources)
                /\ response' = QueryFailed(ZeroDivisionError)
                /\ calls' = [NoCalls EXCEPT !.embed = 1, !.query = <<index_call>>,
                                            !.generate = <<generate_call>>]
                /\ UNCHANGED chat_messages
           ELSE IF sid \notin {s.id : s \in chat_sessions'}
           THEN \* main.py 440: the INSERT violates chat_messages.session_id
                /\ response' = QueryFailed(ForeignKeyError)
                /\ calls' = [NoCalls EXCEPT !.embed = 1, !.query = <<index_call>>,
                                            !.generate = <<generate_call>>]
                /\ UNCHANGED chat_messages
           ELSE \* main.py 436-451
                /\ chat_messages' = chat_messages \o
                       <<MessageRow(message_id - 1, sid, "user", question, <<>>),
                         MessageRow(message_id, sid, "assistant", answer,
                                    <<SumConfidence(sources), Len(sources)>>)>>
                /\ response' = QueryOk(answer, sources, sid, message_id)
                /\ calls' = [NoCalls EXCEPT !.embed = 1, !.query = <<index_call>>,
                                            !.generate = <<generate_call>>]
        /\ UNCHANGED <<documents, document_chunks, collection, uploader, connections, chunkVars, sheetVars>>

(***************************************************************************)
(* DELETE /documents/{doc_id}: main.py 517-570.                            *)
(***************************************************************************)
\* the refusal without the ownership test
DeleteRefusalNoOwner(doc_owner_id, user_id) ==
    IF doc_owner_id = 0 THEN 404 ELSE 0

\* main.py 528-535: the refusal, if any
DeleteRefusal(doc_owner_id, user_id) ==
    IF doc_owner_id = 0 THEN 404
    ELSE IF doc_owner_id # user_id THEN 403
    ELSE 0

DeleteRefused(status) ==
    [status |-> status,
     detail |-> IF status = 404 THEN <<"Document not found">>
                ELSE <<"You don't have permission to delete this document">>,
     body |-> <<>>]

\* main.py 555-559
DeleteOk(doc_id, doc_info) ==
    [status |-> 200, detail |-> <<>>,
     body |-> [doc_id |-> doc_id, filename |-> doc_info.filename]]

\* The handler.  index_ok: collection.delete succeeds (its failure is
\* logged and skipped, main.py 546-548).
Delete(user_email, doc_id, index_ok) ==
    LET user_id == get_or_create_user(user_email)
        doc_owner_id == get_document_owner(doc_id)
        refusal == DeleteRefusal(doc_owner_id, user_id)
    IN  /\ pc = "idle"
        /\ request' = [op |-> "delete", user_email |-> user_email, doc_id |-> doc_id]
        /\ users' = UsersAfter(user_email)
        /\ serial' = [serial EXCEPT !.users = UserSerialAfter(user_email)]
        /\ calls' = NoCalls
        /\ IF refusal # 0
           THEN /\ index_ok
                /\ response' = DeleteRefused(refusal)
                /\ UNCHANGED <<documents, document_chunks, collection>>
           ELSE /\ collection' = IF index_ok
                                 THEN {e \in collection : e.metadata.doc_id # doc_id}
                                 ELSE collection
                \* postgres_manager.py 96-118
                /\ document_chunks' = {c \in document_chunks : c.document_id # doc_id}
                /\ documents' = {d \in documents : d.id # doc_id}
                /\ response' = DeleteOk(doc_id, get_document_info(doc_id))
        /\ UNCHANGED <<chat_sessions, chat_messages, uploader, connections, chunkVars, sheetVars>>

(***************************************************************************)
(* The service: the state after start-up and the requests it serves.       *)
(***************************************************************************)
MaxDocs == 2
MaxSessions == 1
MaxMessages == 2
MaxResults == 1
IngestDocs == 2
IngestSessions == 1
IngestResults == 2
AnswerDocs == 2
AnswerSessions == 1
AnswerResults == 3

Emails == {"alice@example.com", "bob@example.com"}
Files == {LongFile, EmptyFile, ExeFile, SheetFile, MislabelledNote, YearSheetFile}
BotModes == {"friendly", "analytical", "creative", "professional", "formal"}

\* questions of three and of four characters
Question0 == <<"w", "h", "y">>
Question1 == <<"w", "h", "y", "?">>
Questions == {Question0, Question1}

NoRequest == [op |-> "none"]

\* the processes that may run get_or_create_user at the same time, each on
\* a connection of its own (postgres_manager.py 15-24, 29)
MaxCallers == 2
Callers == 1..MaxCallers
NoOutcome == [status |-> "none", id |-> 0]
NoConnections == [c \in Callers |-> [pc |-> "idle", email |-> "", result |-> 0, outcome |-> NoOutcome]]
NoResponse == [status |-> 0, detail |-> <<>>, body |-> <<>>]

ApiInit ==
    /\ users = {}
    /\ documents = {}
    /\ document_chunks = {}
    /\ chat_sessions = {}
    /\ chat_messages = <<>>
    /\ serial = [users |-> 1, documents |-> 1, chat_sessions |-> 1]
    /\ collection = {}
    /\ request = NoRequest
    /\ response = NoResponse
    /\ calls = NoCalls
    /\ uploader = <<>>
    /\ connections = NoConnections

\* SpecChunk leaves the service as it is after start-up
ApiIdle == ApiInit

\* Spec never runs chunk_text on its own
ChunkIdle ==
    /\ text = <<>>
    /\ chunk_size = TextChunkSize
    /\ overlap = UploadOverlap
    /\ start = 0
    /\ chunks = <<>>
    /\ pc = "idle"
    /\ visited = {}

\* only SpecSheet analyses a sheet on its own
SheetIdle ==
    /\ df = <<>>
    /\ analysis_results = <<>>
    /\ sheet_pc = "idle"

Init == ChunkIdle /\ ApiInit /\ SheetIdle

\* POST /upload with any of the given inputs; the embedding service answers
\* the first n_embedded calls and fails the next one, if any
UploadRequests(emails, files, advs, max_docs) ==
    \E user_email \in emails, file \in files, advanced \in advs :
        \E n_embedded \in 0..Len(ChunksOfFile[file][advanced]) :
            /\ serial.documents <= max_docs
            /\ Upload(user_email, file, advanced, n_embedded)

\* POST /query with any of the given inputs and collaborator answers
QueryRequests(emails, questions, ks, session_ids, modes, embed_oks, answers, max_sessions, max_messages) ==
    \E user_email \in emails, question \in questions, max_results \in ks,
       session_id \in session_ids, bot_mode \in modes, embed_ok \in embed_oks,
       answer \in answers :
        /\ session_id = 0 => serial.chat_sessions <= max_sessions
        /\ Len(chat_messages) + 2 <= max_messages
        /\ Query(user_email, question, max_results, session_id, bot_mode, embed_ok, answer)

\* DELETE /documents/{doc_id} with any of the given inputs
DeleteRequests(emails, doc_ids, index_oks) ==
    \E user_email \in emails, doc_id \in doc_ids, index_ok \in index_oks :
        Delete(user_email, doc_id, index_ok)

\* Spec: two users, one-chunk notes, every request kind
UploadRequest == UploadRequests(Emails, {NoteFile, MemoFile}, {TRUE}, MaxDocs)
QueryRequest ==
    QueryRequests(Emails, {Question0}, 1..MaxResults, {0}, {"friendly"},
                  BOOLEAN, {"answer", None}, MaxSessions, MaxMessages)
DeleteRequest == DeleteRequests(Emails, 1..MaxDocs, {TRUE})

Next == UploadRequest \/ QueryRequest \/ DeleteRequest

Spec == Init /\ [][Next]_vars

\* SpecIngest: one user, files of every kind, an embedding service that may
\* fail at any chunk
IngestUpload ==
    UploadRequests({"alice@example.com"}, Files, BOOLEAN, IngestDocs)
IngestQuery ==
    QueryRequests({"alice@example.com"}, {Question0}, {IngestResults}, {0}, {"professional"},
                  {TRUE}, {"answer"}, IngestSessions, 2 * IngestSessions)
IngestDelete == DeleteRequests({"alice@example.com"}, 1..IngestDocs, BOOLEAN)

IngestNext == IngestUpload \/ IngestQuery \/ IngestDelete

SpecIngest == Init /\ [][IngestNext]_vars

\* SpecAnswer: one user, up to three chunks at different distances, every
\* persona
AnswerUpload ==
    UploadRequests({"alice@example.com"}, {NoteFile, LongFile}, {TRUE}, AnswerDocs)
AnswerQuery ==
    QueryRequests({"alice@example.com"}, Questions, 1..AnswerResults, {0}, BotModes,
                  {TRUE}, {"answer"}, AnswerSessions, 2 * AnswerSessions)

AnswerNext == AnswerUpload \/ AnswerQuery

SpecAnswer == Init /\ [][AnswerNext]_vars

(***************************************************************************)
(* The loop of chunk_text as a state machine.                              *)
(***************************************************************************)
ChunkInit ==
    /\ \/ /\ text \in Texts
          /\ \E p \in ChunkParams : chunk_size = p[1] /\ overlap = p[2]
       \/ /\ text \in TableTexts
          /\ \E p \in TableParams : chunk_size = p[1] /\ overlap = p[2]
    /\ start = 0
    /\ chunks = <<>>
    /\ pc = "loop"
    /\ visited = {}
    /\ ApiIdle
    /\ SheetIdle

\* main.py 100-120: one pass through the loop body
ChunkLoop ==
    /\ pc = "loop"
    /\ start < Len(text)
    /\ start \notin visited
    /\ visited' = visited \cup {start}
    /\ IF IterRaises(text, chunk_size, start)
       THEN /\ pc' = "raised"
            /\ UNCHANGED <<start, chunks>>
       ELSE /\ chunks' = AppendChunk(chunks, WindowChunk(text, chunk_size, start))
            /\ start' = NextStart(text, chunk_size, overlap, start)
            /\ pc' = "loop"
    /\ UNCHANGED <<text, chunk_size, overlap, apiVars, sheetVars>>

\* main.py 100, 122: the loop condition fails and chunks is returned
ChunkReturn ==
    /\ pc = "loop"
    /\ start >= Len(text)
    /\ pc' = "done"
    /\ UNCHANGED <<text, chunk_size, overlap, start, chunks, visited, apiVars, sheetVars>>

\* main.py 100-120: the loop head is reached with a value of start it had
\* before.  The body is a function of start alone (text, chunk_size and
\* overlap never change), so the loop repeats the same passes forever.
ChunkDiverge ==
    /\ pc = "loop"
    /\ start < Len(text)
    /\ start \in visited
    /\ pc' = "diverged"
    /\ UNCHANGED <<text, chunk_size, overlap, start, chunks, visited, apiVars, sheetVars>>

ChunkNext == ChunkLoop \/ ChunkReturn \/ ChunkDiverge

SpecChunk == ChunkInit /\ [][ChunkNext]_vars

(***************************************************************************)
(* Properties of chunk_text, checked under SpecChunk.                      *)
(***************************************************************************)
\* C1: for every text and every 0 < overlap < chunk_size the loop of
\* chunk_text terminates: it never comes back to a loop head with a value
\* of start it had before, and no pass raises.
C1_Terminates == pc \notin {"diverged", "raised"}

\* C2: a text no longer than chunk_size whose stripped form is not empty
\* gives exactly one chunk, the stripped text.
C2_ShortTextOneChunk ==
    (pc = "done" /\ Len(text) <= chunk_size /\ Strip(text) # <<>>)
        => chunks = <<Strip(text)>>

\* C10: no chunk is empty, none begins or ends with a whitespace character
\* (at every point of the loop, so in the returned list too), and the empty
\* text returns the empty list.
C10_ChunksStripped ==
    /\ \A i \in 1..Len(chunks) :
          /\ chunks[i] # <<>>
          /\ chunks[i][1] \notin Whitespace
          /\ chunks[i][Len(chunks[i])] \notin Whitespace
    /\ (pc = "done" /\ text = <<>>) => chunks = <<>>

\* a returned list of two or more chunks of a text that begins and ends
\* with whitespace and has a window that holds only whitespace
C10_Witness ==
    /\ pc = "done"
    /\ Len(chunks) >= 2
    /\ text[1] \in Whitespace
    /\ text[Len(text)] \in Whitespace
    /\ Len(chunks) < Cardinality(visited)

\* C11 (SpecChunk), as the claim states it: every chunk has at most
\* chunk_size + overlap characters.
C11_LengthBound ==
    \A i \in 1..Len(chunks) : Len(chunks[i]) <= chunk_size + overlap

\* C11 (SpecChunk), amended: every chunk is shorter than 1.5 * chunk_size
\* or has at most chunk_size + 1 characters, and a chunk of a text without
\* a marker has at most chunk_size + 1 characters.
C11_SnapLengthBound ==
    \A i \in 1..Len(chunks) :
        /\ 2 * Len(chunks[i]) < 3 * chunk_size \/ Len(chunks[i]) <= chunk_size + 1
        /\ ~HasMarker(text) => Len(chunks[i]) <= chunk_size + 1

\* a returned chunk that a marker snap made longer than chunk_size + overlap
C11_Witness ==
    /\ pc = "done"
    /\ HasMarker(text)
    /\ \E i \in 1..Len(chunks) : Len(chunks[i]) > chunk_size + overlap

\* main.py 100-120: the windows <<start, end>> of the passes of a loop that
\* ends, in order
RECURSIVE WindowsFrom(_, _, _, _, _)
WindowsFrom(t, cs, ov, st, ws) ==
    IF st < Len(t)
    THEN WindowsFrom(t, cs, ov, NextStart(t, cs, ov, st),
                     Append(ws, [start |-> st, end |-> WindowEnd(t, cs, st)]))
    ELSE ws

Windows == WindowsFrom(text, chunk_size, overlap, 0, <<>>)

\* main.py 116: text[start:end] of a window, before .strip()
RawChunk(w) == PySlice(text, w.start, w.end)

\* the window ends at start + chunk_size: no marker or sentence end moved it
Unsnapped(w) == w.end = w.start + chunk_size

\* .strip() removed nothing and left a chunk to append
Untrimmed(w) == RawChunk(w) # <<>> /\ Strip(RawChunk(w)) = RawChunk(w)

\* c[-overlap:] and c[:overlap]
OverlapSuffix(c) == PySlice(c, -overlap, Len(c))
OverlapPrefix(c) == PySlice(c, 0, overlap)

\* C12 (SpecChunk): in the list returned for a text without markers, two
\* adjacent chunks whose windows were not snapped and not trimmed share the
\* overlap: the last `overlap` characters of the first are the first
\* `overlap` characters of the second.  (Chunk i comes from window i when
\* no earlier window was dropped as empty.)
C12_ExactOverlap ==
    (pc = "done" /\ ~HasMarker(text)) =>
        \A i \in 1..(Len(Windows) - 1) :
            (/\ \A j \in 1..(i + 1) : Strip(RawChunk(Windows[j])) # <<>>
             /\ Unsnapped(Windows[i]) /\ Untrimmed(Windows[i])
             /\ Unsnapped(Windows[i + 1]) /\ Untrimmed(Windows[i + 1]))
                => /\ chunks[i] = RawChunk(Windows[i])
                   /\ chunks[i + 1] = RawChunk(Windows[i + 1])
                   /\ OverlapSuffix(chunks[i]) = OverlapPrefix(chunks[i + 1])

\* the positions (1-based) of text that text[start:end] of a window holds
SliceRange(w) == (PyNorm(w.start, Len(text)) + 1)..PyNorm(w.end, Len(text))

\* the windows of a returned list leave no gap: the first starts at 0, each
\* later one starts at or before the end of the one before, the last
\* reaches the end of the text, and every position is in some window's slice
NoGap ==
    /\ text # <<>> => Windows # <<>> /\ Windows[1].start = 0
    /\ \A i \in 1..(Len(Windows) - 1) : Windows[i + 1].start <= Windows[i].end
    /\ Windows # <<>> => Windows[Len(Windows)].end >= Len(text)
    /\ \A p \in 1..Len(text) : \E i \in 1..Len(Windows) : p \in SliceRange(Windows[i])

\* every character that is not whitespace is in the chunk of some window
NothingLost ==
    \A p \in 1..Len(text) :
        text[p] \notin Whitespace =>
            \E i \in 1..Len(Windows) :
                /\ p \in SliceRange(Windows[i])
                /\ \E k \in 1..Len(chunks) : chunks[k] = Strip(RawChunk(Windows[i]))

\* C13 (SpecChunk): for every text without a marker the loop ends with
\* windows that cover the text without a gap, so that the chunks hold every
\* character of the text except whitespace trimmed at the window edges.
C13_CoversText ==
    ~HasMarker(text) =>
        /\ pc # "diverged"
        /\ pc = "done" => NoGap /\ NothingLost

(***************************************************************************)
(* Properties of the handlers.                                             *)
(***************************************************************************)
\* the fragment is part of the text
InText(fragment, txt) == \E i \in 1..Len(txt) : txt[i] = fragment

\* the id of the users row of an e-mail
UserIdOf(email) == (CHOOSE u \in users : u.email = email).id

\* the user_id filter, hits and sources of the last index query
LastQuery == calls.query[1]

\* C3 (Spec): per-user isolation.  Every hit the index returns to a query
\* belongs to a document that the querying e-mail uploaded, and carries that
\* user's id in its metadata, even when another user's chunk is nearer to
\* the question.
C3_Isolation ==
    (request.op = "query" /\ calls.query # <<>>) =>
        \A i \in 1..Len(LastQuery.ids) :
            /\ uploader[LastQuery.ids[i][1]] = request.user_email
            /\ \A e \in collection :
                  e.id = LastQuery.ids[i] => e.metadata.user_id = UserIdOf(request.user_email)

\* a query that returned a chunk of its user while the index holds a chunk
\* of another user that is strictly nearer to the question
C3_Witness ==
    /\ request.op = "query"
    /\ response.status = 200
    /\ calls.query # <<>>
    /\ LastQuery.ids # <<>>
    /\ \E mine \in collection, other \in collection :
          /\ mine.id = LastQuery.ids[1]
          /\ uploader[other.id[1]] # request.user_email
          /\ Distance(LastQuery.query_embedding, other.embedding)
                < Distance(LastQuery.query_embedding, mine.embedding)

\* C4 (SpecIngest): an upload whose embedding call failed answers with an
\* error that carries the embedding service's message, and an upload that
\* answers 200 has every one of its chunks in the vector index.
C4_EmbeddingFailureFailsUpload ==
    request.op = "upload" =>
        /\ calls.embed > calls.add =>
              /\ response.status = 500
              /\ \A i \in 1..Len(EmbeddingError) : InText(EmbeddingError[i], response.detail)
        /\ response.status = 200 =>
              /\ calls.embed = calls.add
              /\ Cardinality({e \in collection :
                                 e.metadata.doc_id = response.body.document_id})
                    = response.body.chunks_created
              /\ Cardinality({c \in document_chunks :
                                 c.document_id = response.body.document_id})
                    = response.body.chunks_created

\* an upload of two chunks that failed at the second embedding call, after
\* the first chunk was stored in the index
C4_Witness ==
    /\ request.op = "upload"
    /\ response.status = 500
    /\ calls.embed = 2
    /\ calls.add = 1
    /\ collection # {}

\* C5 (SpecIngest): the upload of a file of an unsupported type answers with
\* a failure that names the extension, and makes no embedding call, no
\* document row, no chunk row and no index entry for the file.
C5_UnsupportedRejected ==
    (request.op = "upload" /\ FileExt(request.filename) = "exe") =>
        /\ response.status >= 400
        /\ InText("exe", response.detail)
        /\ calls.embed = 0
        /\ calls.add = 0
        /\ \A d \in documents : d.filename # request.filename
        /\ \A e \in collection : e.metadata.source # request.filename

\* C6 (Spec): a query for which the index returns nothing answers 200 with
\* the fixed answer, confidence 0 and no sources, and does not call the
\* generation service.
C6_EmptyResult ==
    (request.op = "query" /\ calls.query # <<>> /\ LastQuery.ids = <<>>) =>
        /\ response.status = 200
        /\ response.body.answer = NoDocumentsAnswer
        /\ response.body.confidence = 0
        /\ response.body.sources = <<>>
        /\ calls.generate = <<>>

\* a query that found nothing for its user in an index that is not empty
C6_Witness ==
    /\ request.op = "query"
    /\ calls.query # <<>>
    /\ LastQuery.ids = <<>>
    /\ collection # {}
    /\ response.status = 200

\* the confidence and the sources of a query that answered 200
Confidence == response.body.confidence
Sources == response.body.sources

\* C7 (SpecAnswer), as the spec states it: the confidence is the mean of the
\* sources' similarity scores, lies in [0, 1], is 0 without sources, and no
\* query fails with a division by zero.
C7_ExactMean ==
    request.op = "query" =>
        /\ ~InText(ZeroDivisionError[1], response.detail)
        /\ response.status = 200 =>
              /\ 0 <= Confidence /\ Confidence <= Unit
              /\ Sources = <<>> => Confidence = 0
              /\ Sources # <<>> => Confidence * Len(Sources) = SumConfidence(Sources)

\* C7 (SpecAnswer), amended: the confidence is the mean of the sources'
\* similarity scores rounded to three decimals (a multiple of 1/1000 within
\* 1/2000 of the mean), lies in [0, 1], is 0 without sources, and no query
\* fails with a division by zero.
C7_RoundedMean ==
    request.op = "query" =>
        /\ ~InText(ZeroDivisionError[1], response.detail)
        /\ response.status = 200 =>
              /\ 0 <= Confidence /\ Confidence <= Unit
              /\ Confidence % 10 = 0
              /\ Sources = <<>> => Confidence = 0
              /\ Sources # <<>> =>
                    LET diff == Confidence * Len(Sources) - SumConfidence(Sources)
                    IN  /\ 2 * diff <= 10 * Len(Sources)
                        /\ -2 * diff <= 10 * Len(Sources)

\* a query with three sources whose mean has more than three decimals
C7_Witness ==
    /\ request.op = "query"
    /\ response.status = 200
    /\ Len(Sources) = 3
    /\ Confidence * 3 # SumConfidence(Sources)

\* C8 (SpecAnswer): retrieval does not depend on the persona.  The index
\* query of every /query request is the embedding of the question, the
\* requested number of results and the id of the requesting user; the
\* sources and the confidence returned are functions of that index query's
\* results.  None of them reads request.bot_mode, so two queries that differ
\* only in bot_mode agree on all of them; the generation call gets the
\* template and the temperature of the persona.
C8_PersonaOnlyGeneration ==
    (request.op = "query" /\ calls.query # <<>>) =>
        LET hits == HitsOf(collection, TextEmbedding(request.question),
                           request.max_results, UserIdOf(request.user_email))
        IN  /\ LastQuery.query_embedding = TextEmbedding(request.question)
            /\ LastQuery.n_results = request.max_results
            /\ LastQuery.where_user_id = UserIdOf(request.user_email)
            /\ LastQuery.ids = [i \in 1..Len(hits) |-> hits[i].id]
            /\ response.status = 200 =>
                  /\ Sources = SourcesOf(hits)
                  /\ Confidence = IF hits = <<>> THEN 0
                                  ELSE Round3(SumConfidence(SourcesOf(hits)), Len(hits))
            /\ calls.generate # <<>> =>
                  /\ calls.generate[1].system_prompt = SystemPrompt(request.bot_mode)
                  /\ calls.generate[1].temperature = Temperature(request.bot_mode)

\* an analytical query that asked for fewer results than its user has chunks
C8_Witness ==
    /\ request.op = "query"
    /\ request.bot_mode = "analytical"
    /\ response.status = 200
    /\ Len(Sources) = request.max_results
    /\ Cardinality({e \in collection :
                       e.metadata.user_id = UserIdOf(request.user_email)}) > Len(Sources)
    /\ calls.generate[1].temperature = 2

\* C9 (Spec): only the owner deletes.  A delete request for a document that
\* another e-mail uploaded answers 403, one for a document that does not
\* exist answers 404, and neither removes a document row, a chunk row or an
\* index entry; a delete that answers 200 was made by the uploader.
C9_OnlyOwnerDeletes ==
    [][request'.op = "delete" =>
          LET exists == \E d \in documents : d.id = request'.doc_id
              foreign == exists /\ uploader[request'.doc_id] # request'.user_email
          IN  /\ foreign =>
                    /\ response'.status = 403
                    /\ UNCHANGED <<documents, document_chunks, collection>>
              /\ ~exists =>
                    /\ response'.status = 404
                    /\ UNCHANGED <<documents, document_chunks, collection>>
              /\ response'.status = 200 => exists /\ ~foreign]_vars

\* a refused delete of a document of another user, which is still stored
\* with its chunk rows and its index entries
C9_Witness ==
    /\ request.op = "delete"
    /\ response.status = 403
    /\ \E d \in documents :
          /\ d.id = request.doc_id
          /\ uploader[d.id] # request.user_email
          /\ \E c \in document_chunks : c.document_id = d.id
          /\ \E e \in collection : e.metadata.doc_id = d.id

\* document_processors.py 136-144: the extractor of a recognised extension
ExtractorOfExt(file_ext) ==
    CASE file_ext \in {"xlsx", "xls"} -> "excel"
      [] file_ext = "pdf" -> "pdf"
      [] file_ext \in {"txt", "md"} -> "text"
      [] OTHER -> "unsupported"

\* the extractor that served the last upload: the file_type of the row the
\* upload stored or, when the extraction failed, the extractor whose error
\* the response carries
LastExtractor ==
    IF InText("File is not a zip file", response.detail) THEN "excel"
    ELSE IF InText("EOF marker not found", response.detail) THEN "pdf"
    ELSE (CHOOSE d \in documents : d.id = serial.documents - 1).file_type

\* C14 (SpecIngest): an uploaded file whose extension is recognised is
\* extracted by the extractor of that extension, whatever content type the
\* request declares.
C14_ExtensionFirst ==
    (request.op = "upload" /\ FileExt(request.filename) \in {"xlsx", "xls", "pdf", "txt", "md"})
        => LastExtractor = ExtractorOfExt(FileExt(request.filename))

\* C15 (SpecIngest): the upload of a workbook that the basic summarizer can
\* read never fails in the extraction, whether the advanced analyzer is
\* missing or its analysis fails: the basic summary is stored instead.
C15_FallsBackToBasic ==
    (request.op = "upload" /\ request.filename \in {SheetFile.filename, YearSheetFile.filename})
        => /\ ~InText("File processing failed: ", response.detail)
           /\ \E d \in documents : d.id = serial.documents - 1 /\ d.file_type = "excel"

\* the metadata map of the last upload's extraction, and the tier in use
LastMetadata == calls.extract[1].metadata
LastAdvanced == calls.extract[1].advanced

\* C16 (SpecIngest): the metadata of every spreadsheet extraction that did
\* not fail names the analysis tier that produced it: "advanced" for the
\* advanced analyzer, "basic" for the basic summarizer.
C16_TierRecorded ==
    (/\ request.op = "upload"
     /\ LastMetadata.file_type = "excel"
     /\ ~Has(LastMetadata, "error"))
        => /\ Has(LastMetadata, "analysis_type")
           /\ LastMetadata.analysis_type = IF LastAdvanced THEN "advanced" ELSE "basic"


(***************************************************************************)
(* A sheet as analyze_excel_advanced holds it after read_excel and the two *)
(* dropna calls of line 66: a sequence of columns, each with its header    *)
(* (a sequence of characters) and its cells.  A cell is <<v>> for the      *)
(* number v and <<>> for an empty cell (NaN); a column of text cells has   *)
(* dtype "object" and its cells are not looked at by the analyses.         *)
(***************************************************************************)
NaN == <<>>
Cells(s) == [i \in 1..Len(s) |-> <<s[i]>>]
NumberColumn(name, values) ==
    [name |-> name,
     dtype |-> IF \E i \in 1..Len(values) : values[i] = NaN THEN "float64" ELSE "int64",
     values |-> values]
TextColumn(name, rows) == [name |-> name, dtype |-> "object", values |-> [i \in 1..rows |-> NaN]]

\* df.select_dtypes(include=['number']).columns, as positions in df
NumericCols(d) == {c \in 1..Len(d) : d[c].dtype \in {"int64", "float64"}}

\* df[col].dropna(): the numbers of a column, in row order
Dropna(values) ==
    LET kept == SelectSeq(values, LAMBDA cell : cell # NaN)
    IN  [i \in 1..Len(kept) |-> kept[i][1]]

\* None, as the analyses return it and as `if kpi_data:` tests it
NoData == <<>>

RECURSIVE SeqSum(_)
SeqSum(s) == IF s = <<>> THEN 0 ELSE s[1] + SeqSum(Tail(s))

SumY(y) == SeqSum(y)
SumYY(y) == SeqSum([i \in 1..Len(y) |-> y[i] * y[i]])

\* n * n times the population variance of y, and n * (n - 1) times the
\* sample variance: n * sum(y^2) - sum(y)^2
VarNum(y) == Len(y) * SumYY(y) - SumY(y) * SumY(y)

(***************************************************************************)
(* _analyze_trends, advanced_excel_processor.py 218-280.  The least-       *)
(* squares slope of y over x = np.arange(n) is SlopeNum(y) / SlopeDen(n);  *)
(* y.std() is numpy's population deviation sqrt(VarNum(y)) / n.  The test  *)
(* abs(slope) < y.std() * 0.1 is decided on the squares:                   *)
(*     (10 * n * SlopeNum)^2  <  SlopeDen^2 * VarNum.                      *)
(* np.polyfit computes the slope in floating point: where the exact slope  *)
(* is 0 the computed one may carry a rounding residue of either sign, and  *)
(* where the two sides of the test are equal it may fall on either side.   *)
(* The deviation of a column of equal integers is exactly 0.0.             *)
(***************************************************************************)
SumX(n) == SeqSum([i \in 1..n |-> i - 1])
SumXX(n) == SeqSum([i \in 1..n |-> (i - 1) * (i - 1)])
SumXY(y) == SeqSum([i \in 1..Len(y) |-> (i - 1) * y[i]])
SlopeNum(y) == Len(y) * SumXY(y) - SumX(Len(y)) * SumY(y)
SlopeDen(n) == n * SumXX(n) - SumX(n) * SumX(n)

\* the signs the computed slope may have
SlopeSigns(y) ==
    IF SlopeNum(y) > 0 THEN {1} ELSE IF SlopeNum(y) < 0 THEN {-1} ELSE {-1, 0, 1}

\* the order of the fractions a / b and c / d (-1, 0, 1), for a, c >= 0 and
\* b, d > 0, by their continued fractions: no product is formed
RECURSIVE FracCmp(_, _, _, _)
FracCmp(a, b, c, d) ==
    IF a \div b < c \div d THEN -1
    ELSE IF a \div b > c \div d THEN 1
    ELSE IF a % b = 0 /\ c % d = 0 THEN 0
    ELSE IF a % b = 0 THEN -1
    ELSE IF c % d = 0 THEN 1
    ELSE FracCmp(d, c % d, b, a % b)

\* the order of abs(slope) and y.std() * 0.1 in exact arithmetic:
\* (10 * n * |SlopeNum|)^2 against SlopeDen^2 * VarNum
SlopeAgainstDeviation(y) ==
    LET n == Len(y)
        p == 10 * n * (IF SlopeNum(y) < 0 THEN -SlopeNum(y) ELSE SlopeNum(y))
    IN  IF VarNum(y) = 0 THEN (IF p = 0 THEN 0 ELSE 1)
        ELSE IF p = 0 THEN -1
        ELSE FracCmp(p, SlopeDen(n) * SlopeDen(n), VarNum(y), p)

\* lines 241-246: the values trend_direction may get
TrendDirections(y) ==
    LET order == SlopeAgainstDeviation(y)
        stable == IF order < 0 \/ (order = 0 /\ VarNum(y) > 0) THEN {"Vakaa"} ELSE {}
        moving == IF order < 0 THEN {}
                  ELSE {IF sign > 0 THEN "Kasvava" ELSE "Laskeva" : sign \in SlopeSigns(y)}
    IN  stable \cup moving

\* lines 248-257: change_percentage as the fraction <<numerator, denominator>>
ChangePct(y) ==
    IF y[1] # 0 THEN <<(y[Len(y)] - y[1]) * 100, IF y[1] < 0 THEN -y[1] ELSE y[1]>>
    ELSE <<0, 1>>

\* lines 259-264: the entries trends[col] may get; slope is the exact
\* fraction, volatility (a float used only in the summary text) is left out
TrendEntries(y) ==
    {[direction |-> direction,
      slope |-> <<SlopeNum(y), SlopeDen(Len(y))>>,
      change_percentage |-> ChangePct(y)] : direction \in TrendDirections(y)}

\* a loop that skips only the columns with fewer than two numbers
TrendColsTwo(d) == {c \in NumericCols(d) : Len(Dropna(d[c].values)) >= 2}

\* lines 228-231: the columns that get an entry
TrendCols(d) == {c \in NumericCols(d) : Len(Dropna(d[c].values)) >= 3}

\* the values _analyze_trends may return: None, or the map of the entries
\* by column header (the summary text is left out)
AnalyzeTrends(d) ==
    IF TrendCols(d) = {} THEN {NoData}
    ELSE LET names == {d[c].name : c \in TrendCols(d)}
             col(name) == CHOOSE c \in TrendCols(d) : d[c].name = name
             entries == UNION {TrendEntries(Dropna(d[c].values)) : c \in TrendCols(d)}
         IN  {[trends |-> t] :
                 t \in {f \in [names -> entries] :
                          \A name \in names : f[name] \in TrendEntries(Dropna(d[col(name)].values))}}


(***************************************************************************)
(* _identify_kpis, advanced_excel_processor.py 146-216.  The keyword lists *)
(* are those of lines 14-32, as sequences of characters.                   *)
(***************************************************************************)
\* lines 14-17
revenue_keywords ==
    {<<"l", "i", "i", "k", "e", "v", "a", "i", "h", "t", "o">>,
     <<"m", "y", "y", "n", "t", "i">>,
     <<"t", "u", "l", "o", "t">>,
     <<"r", "e", "v", "e", "n", "u", "e">>,
     <<"s", "a", "l", "e", "s">>,
     <<"i", "n", "c", "o", "m", "e">>,
     <<"n", "e", "t", " ", "s", "a", "l", "e", "s">>,
     <<"g", "r", "o", "s", "s", " ", "r", "e", "v", "e", "n", "u", "e">>,
     <<"t", "u", "r", "n", "o", "v", "e", "r">>}

\* lines 19-22
profit_keywords ==
    {<<"v", "o", "i", "t", "t", "o">>,
     <<"t", "u", "l", "o", "s">>,
     <<"k", "a", "t", "e">>,
     <<"p", "r", "o", "f", "i", "t">>,
     <<"e", "b", "i", "t">>,
     <<"e", "b", "i", "t", "d", "a">>,
     <<"o", "p", "e", "r", "a", "t", "i", "n", "g", " ", "i", "n", "c", "o", "m", "e">>,
     <<"n", "e", "t", " ", "i", "n", "c", "o", "m", "e">>,
     <<"g", "r", "o", "s", "s", " ", "p", "r", "o", "f", "i", "t">>,
     <<"m", "a", "r", "g", "i", "n">>}

\* lines 24-27
cost_keywords ==
    {<<"k", "u", "l", "u", "t">>,
     <<"k", "u", "s", "t", "a", "n", "n", "u", "k", "s", "e", "t">>,
     <<"m", "e", "n", "o", "t">>,
     <<"c", "o", "s", "t", "s">>,
     <<"e", "x", "p", "e", "n", "s", "e", "s">>,
     <<"o", "p", "e", "r", "a", "t", "i", "n", "g", " ", "c", "o", "s", "t", "s">>,
     <<"c", "o", "g", "s">>,
     <<"o", "v", "e", "r", "h", "e", "a", "d">>}

\* lines 29-32
growth_keywords ==
    {<<"k", "a", "s", "v", "u">>,
     <<"m", "u", "u", "t", "o", "s">>,
     <<"g", "r", "o", "w", "t", "h">>,
     <<"c", "h", "a", "n", "g", "e">>,
     <<"i", "n", "c", "r", "e", "a", "s", "e">>,
     <<"d", "e", "l", "t", "a">>,
     <<"v", "a", "r", "i", "a", "n", "c", "e">>,
     <<"y", "o", "y">>,
     <<"m", "o", "m">>}

UpperCase == <<"A", "B", "C", "D", "E", "F", "G", "H", "I", "J", "K", "L", "M", "N", "O", "P", "Q", "R", "S", "T", "U", "V", "W", "X", "Y", "Z">>
LowerCase == <<"a", "b", "c", "d", "e", "f", "g", "h", "i", "j", "k", "l", "m", "n", "o", "p", "q", "r", "s", "t", "u", "v", "w", "x", "y", "z">>

\* str.lower() on a sequence of characters
LowerText(s) ==
    [i \in 1..Len(s) |->
        IF \E k \in 1..26 : UpperCase[k] = s[i]
        THEN LowerCase[CHOOSE k \in 1..26 : UpperCase[k] = s[i]]
        ELSE s[i]]

\* keyword in col_lower
Contains(keyword, s) ==
    \E p \in 0..(Len(s) - Len(keyword)) : SubSeq(s, p + 1, p + Len(keyword)) = keyword

\* any(keyword in col_lower for keyword in keywords)
AnyKeyword(keywords, col_lower) == \E keyword \in keywords : Contains(keyword, col_lower)

\* a chain that tests the keyword lists in the opposite order
KpiCategoryGrowthFirst(column) ==
    LET col_lower == LowerText(column.name)
    IN  IF AnyKeyword(growth_keywords, col_lower) THEN "growth"
        ELSE IF AnyKeyword(cost_keywords, col_lower) THEN "costs"
        ELSE IF AnyKeyword(profit_keywords, col_lower) THEN "profit"
        ELSE IF AnyKeyword(revenue_keywords, col_lower) THEN "revenue"
        ELSE IF column.dtype \in {"int64", "float64"} THEN "other"
        ELSE "none"

\* lines 158-170: the list of kpis a column is appended to ("none": no list)
KpiCategory(column) ==
    LET col_lower == LowerText(column.name)
    IN  IF AnyKeyword(revenue_keywords, col_lower) THEN "revenue"
        ELSE IF AnyKeyword(profit_keywords, col_lower) THEN "profit"
        ELSE IF AnyKeyword(cost_keywords, col_lower) THEN "costs"
        ELSE IF AnyKeyword(growth_keywords, col_lower) THEN "growth"
        ELSE IF column.dtype \in {"int64", "float64"} THEN "other"
        ELSE "none"

KpiCategories == {"revenue", "profit", "costs", "growth", "other"}

\* the value _identify_kpis returns: None when no column is in any list,
\* else the lists of headers in column order (the statistics and the
\* summary text, which are computed from the lists, are left out)
IdentifyKpis(d) ==
    LET kpis == [category \in KpiCategories |->
                    LET cols == SelectSeq([c \in 1..Len(d) |-> c],
                                          LAMBDA c : KpiCategory(d[c]) = category)
                    IN  [k \in 1..Len(cols) |-> d[cols[k]].name]]
    IN  IF \A category \in KpiCategories : kpis[category] = <<>> THEN NoData
        ELSE [categories |-> kpis]


(***************************************************************************)
(* _detect_anomalies, advanced_excel_processor.py 282-322.  series.mean()  *)
(* is sum / n and series.std() is pandas' sample deviation (ddof = 1), so  *)
(* z > 2 is decided on the squares:                                        *)
(*     (n * v - sum)^2 * (n - 1)  >  4 * n * VarNum.                       *)
(* A column of equal numbers has deviation 0 and z-scores NaN, which are   *)
(* not above 2.                                                            *)
(***************************************************************************)
\* lines 294-295: z_scores > 2 at the value v of the series
IsOutlier(series, v) ==
    LET n == Len(series)
        dev == n * v - SumY(series)
    IN  dev * dev * (n - 1) > 4 * n * VarNum(series)

\* line 295: series[z_scores > 2], in row order
Outliers(series) == SelectSeq(series, LAMBDA v : IsOutlier(series, v))

\* lines 289-292: the columns that are examined
AnomalyCols(d) == {c \in NumericCols(d) : Len(Dropna(d[c].values)) >= 5}

\* the value _detect_anomalies returns: None, or the map of the columns
\* with outliers by header (outlier_percentage, normal_range and the
\* summary text are left out)
DetectAnomalies(d) ==
    LET flagged == {c \in AnomalyCols(d) : Outliers(Dropna(d[c].values)) # <<>>}
        names == {d[c].name : c \in flagged}
        col(name) == CHOOSE c \in flagged : d[c].name = name
    IN  IF flagged = {} THEN NoData
        ELSE [anomalies |->
                [name \in names |->
                    LET outliers == Outliers(Dropna(d[col(name)].values))
                    IN  [outlier_count |-> Len(outliers), outlier_values |-> outliers]]]

(***************************************************************************)
(* _generate_business_insights, advanced_excel_processor.py 324-364.  An   *)
(* insight is a record of what its sentence reports.  max_val > mean * 3   *)
(* is n * max > 3 * sum; the Pearson correlation of two columns over the   *)
(* rows where both have a number is cov / sqrt(var1 * var2), NaN when a    *)
(* variance is 0, and abs(corr) > 0.7 is 100 * cov^2 > 49 * var1 * var2.   *)
(***************************************************************************)
SeqMax(s) == SetMax({s[i] : i \in 1..Len(s)})

\* lines 340-346: the insight on an exceptionally large value
LargeValueInsight(name, series) ==
    IF Len(series) * SeqMax(series) > 3 * SumY(series)
    THEN <<[kind |-> "large_value", col |-> name, max_val |-> SeqMax(series)]>>
    ELSE <<>>

\* lines 348-351: the insight on negative values
NegativeInsight(name, series) ==
    LET negative_count == Len(SelectSeq(series, LAMBDA v : v < 0))
    IN  IF negative_count > 0
        THEN <<[kind |-> "negative", col |-> name, negative_count |-> negative_count]>>
        ELSE <<>>

\* lines 333-351 for the numeric columns cols (positions, ascending)
RECURSIVE ColumnInsights(_, _)
ColumnInsights(d, cols) ==
    IF cols = <<>> THEN <<>>
    ELSE LET series == Dropna(d[cols[1]].values)
             here == IF Len(series) = 0 THEN <<>>
                     ELSE LargeValueInsight(d[cols[1]].name, series)
                            \o NegativeInsight(d[cols[1]].name, series)
         IN  here \o ColumnInsights(d, Tail(cols))

\* n * cov, n * var1, n * var2 of two columns over their common rows
PairRows(a, b) == SelectSeq([i \in 1..Len(a) |-> i], LAMBDA i : a[i] # NaN /\ b[i] # NaN)
Covariance(a, b) ==
    LET rows == PairRows(a, b)
        u == [k \in 1..Len(rows) |-> a[rows[k]][1]]
        v == [k \in 1..Len(rows) |-> b[rows[k]][1]]
    IN  [cov |-> Len(rows) * SeqSum([k \in 1..Len(rows) |-> u[k] * v[k]]) - SumY(u) * SumY(v),
         var1 |-> VarNum(u),
         var2 |-> VarNum(v)]

\* lines 358-362: the insight on a strong correlation of two columns
CorrelationInsight(d, c1, c2) ==
    LET r == Covariance(d[c1].values, d[c2].values)
    IN  IF r.var1 * r.var2 > 0 /\ 100 * r.cov * r.cov > 49 * r.var1 * r.var2
        THEN <<[kind |-> "correlation", col |-> d[c1].name, col2 |-> d[c2].name,
                direction |-> IF r.cov > 0 THEN "positiivinen" ELSE "negatiivinen"]>>
        ELSE <<>>

\* lines 357-362 for the pairs (cols[i], cols[j]), i < j, in loop order
RECURSIVE PairInsights(_, _, _, _)
PairInsights(d, cols, i, j) ==
    IF i > Len(cols) THEN <<>>
    ELSE IF j > Len(cols) THEN PairInsights(d, cols, i + 1, i + 2)
    ELSE CorrelationInsight(d, cols[i], cols[j]) \o PairInsights(d, cols, i, j + 1)

\* the list _generate_business_insights returns
GenerateBusinessInsights(d) ==
    LET numeric_cols == SelectSeq([c \in 1..Len(d) |-> c], LAMBDA c : c \in NumericCols(d))
    IN  IF Len(numeric_cols) < 2 THEN <<>>
        ELSE ColumnInsights(d, numeric_cols) \o PairInsights(d, numeric_cols, 1, 2)


(***************************************************************************)
(* The sheets of the model.  Three families:                               *)
(*   a column of labels and a column "units" of up to MaxTrendRows cells   *)
(*   that are empty or hold a number of -1..MaxUnit, and the columns       *)
(*   100, 100, 100 and 10, 20, 30, 40;                                     *)
(*   a column of labels and a column "units" of up to MaxAnomalyRows       *)
(*   cells that are empty or hold 10 or 1000, and the columns              *)
(*   10, 11, 9, 10, 1000 and 10, 11, 9, 10, 12;                            *)
(*   up to MaxCols columns of two rows with different headers of Headers,  *)
(*   each one of the number columns KpiSeries or a column of text.         *)
(* A column that is empty throughout is not in a sheet (line 66).          *)
(***************************************************************************)
SeqsOf(S, lo, hi) == UNION {[1..n -> S] : n \in lo..hi}

Month == <<"M", "o", "n", "t", "h">>
Units == <<"u", "n", "i", "t", "s">>
Headers ==
    {<<"r", "e", "v", "e", "n", "u", "e", "_", "g", "r", "o", "w", "t", "h">>,
     <<"N", "e", "t", " ", "I", "n", "c", "o", "m", "e">>,
     <<"P", "r", "o", "f", "i", "t">>,
     <<"C", "O", "G", "S">>,
     <<"Y", "o", "Y">>,
     <<"C", "o", "s", "t">>,
     <<"u", "n", "i", "t", "s">>}

TrendCells == {NaN} \cup {<<v>> : v \in -1..MaxUnit}
AnomalyCells == {NaN, <<10>>, <<1000>>}
KpiSeries == {<<-1, 2>>, <<2, -1>>, <<2, 3>>}

Labelled(values) == <<TextColumn(Month, Len(values)), NumberColumn(Units, values)>>

TrendSheets ==
    {Labelled(values) : values \in {s \in SeqsOf(TrendCells, 1, MaxTrendRows) : Dropna(s) # <<>>}}
        \cup {Labelled(Cells(<<100, 100, 100>>)), Labelled(Cells(<<10, 20, 30, 40>>))}

AnomalySheets ==
    {Labelled(values) : values \in {s \in SeqsOf(AnomalyCells, 4, MaxAnomalyRows) : Dropna(s) # <<>>}}
        \cup {Labelled(Cells(<<10, 11, 9, 10, 1000>>)), Labelled(Cells(<<10, 11, 9, 10, 12>>))}

KpiColumns ==
    {NumberColumn(name, Cells(s)) : name \in Headers, s \in KpiSeries}
        \cup {TextColumn(name, 2) : name \in Headers}

KpiSheets ==
    {d \in SeqsOf(KpiColumns, 1, MaxCols) :
        \A i, j \in 1..Len(d) : i # j => d[i].name # d[j].name}

Sheets == TrendSheets \cup AnomalySheets \cup KpiSheets

(***************************************************************************)
(* The body of the sheet loop of analyze_excel_advanced, lines 75-96, on   *)
(* one sheet: one action per analysis, in the order of the code.           *)
(***************************************************************************)
sheet_name == "Sheet1"

\* lines 52-58, the entries the sheet loop writes
InitialResults ==
    [kpi_analysis |-> <<>>, trend_analysis |-> <<>>, anomaly_detection |-> <<>>,
     business_insights |-> <<>>]

SheetInit ==
    /\ df \in Sheets
    /\ analysis_results = InitialResults
    /\ sheet_pc = "kpis"
    /\ ChunkIdle
    /\ ApiIdle

\* lines 75-79
SheetKpis ==
    /\ sheet_pc = "kpis"
    /\ LET kpi_data == IdentifyKpis(df)
       IN  analysis_results' =
               IF kpi_data # NoData
               THEN [analysis_results EXCEPT !.kpi_analysis = (sheet_name :> kpi_data)]
               ELSE analysis_results
    /\ sheet_pc' = "trends"
    /\ UNCHANGED <<df, chunkVars, apiVars>>

\* lines 81-85
SheetTrends ==
    /\ sheet_pc = "trends"
    /\ \E trend_data \in AnalyzeTrends(df) :
          analysis_results' =
              IF trend_data # NoData
              THEN [analysis_results EXCEPT !.trend_analysis = (sheet_name :> trend_data)]
              ELSE analysis_results
    /\ sheet_pc' = "anomalies"
    /\ UNCHANGED <<df, chunkVars, apiVars>>

\* lines 87-91
SheetAnomalies ==
    /\ sheet_pc = "anomalies"
    /\ LET anomalies == DetectAnomalies(df)
       IN  analysis_results' =
               IF anomalies # NoData
               THEN [analysis_results EXCEPT !.anomaly_detection = (sheet_name :> anomalies)]
               ELSE analysis_results
    /\ sheet_pc' = "insights"
    /\ UNCHANGED <<df, chunkVars, apiVars>>

\* lines 93-95
SheetInsights ==
    /\ sheet_pc = "insights"
    /\ analysis_results' =
          [analysis_results EXCEPT
              !.business_insights = @ \o GenerateBusinessInsights(df)]
    /\ sheet_pc' = "done"
    /\ UNCHANGED <<df, chunkVars, apiVars>>

SheetNext == SheetKpis \/ SheetTrends \/ SheetAnomalies \/ SheetInsights

SpecSheet == SheetInit /\ [][SheetNext]_vars


(***************************************************************************)
(* Properties of the analyses of a sheet.                                  *)
(***************************************************************************)
\* the analyses that have run on the sheet
Ran(step) ==
    CASE step = "kpis" -> sheet_pc \in {"trends", "anomalies", "insights", "done"}
      [] step = "trends" -> sheet_pc \in {"anomalies", "insights", "done"}
      [] step = "anomalies" -> sheet_pc \in {"insights", "done"}
      [] step = "insights" -> sheet_pc = "done"

\* trends[col]['direction'] of the column at position c
DirectionOf(c) == analysis_results.trend_analysis[sheet_name].trends[df[c].name].direction

\* C17 (SpecSheet): a column with at least three numbers is classified
\* stable ("Vakaa") when |slope| < 0.1 * deviation, else increasing
\* ("Kasvava") when its slope is positive and decreasing ("Laskeva") when
\* it is negative; the column 100, 100, 100 is stable and the column
\* 10, 20, 30, 40 is increasing.
C17_TrendClasses ==
    Ran("trends") =>
        \A c \in TrendCols(df) :
            LET y == Dropna(df[c].values)
            IN  /\ SlopeAgainstDeviation(y) < 0 => DirectionOf(c) = "Vakaa"
                /\ SlopeAgainstDeviation(y) > 0 /\ SlopeNum(y) > 0 => DirectionOf(c) = "Kasvava"
                /\ SlopeAgainstDeviation(y) > 0 /\ SlopeNum(y) < 0 => DirectionOf(c) = "Laskeva"
                /\ y = <<100, 100, 100>> => DirectionOf(c) = "Vakaa"
                /\ y = <<10, 20, 30, 40>> => DirectionOf(c) = "Kasvava"


\* anomalies[col]['outlier_values'] of the column at position c; a column
\* without an entry has no reported outlier
ReportedOutliers(c) ==
    IF /\ Has(analysis_results.anomaly_detection, sheet_name)
       /\ df[c].name \in DOMAIN analysis_results.anomaly_detection[sheet_name].anomalies
    THEN analysis_results.anomaly_detection[sheet_name].anomalies[df[c].name].outlier_values
    ELSE <<>>

\* |z| > 2 for the value v of the series, z taken with the population mean
\* and deviation: (n * v - sum)^2 > 4 * VarNum
ZScoreAboveTwo(series, v) ==
    LET dev == Len(series) * v - SumY(series)
    IN  dev * dev > 4 * VarNum(series)

\* C18 (SpecSheet): for a column with at least five numbers the reported
\* outliers are exactly the values whose z-score is above 2 in magnitude;
\* in the column 10, 11, 9, 10, 1000 the value 1000 is reported, and in
\* the column 10, 11, 9, 10, 12 no value is.
C18_OutliersAboveTwo ==
    Ran("anomalies") =>
        \A c \in AnomalyCols(df) :
            LET series == Dropna(df[c].values)
            IN  /\ ReportedOutliers(c) = SelectSeq(series, LAMBDA v : ZScoreAboveTwo(series, v))
                /\ series = <<10, 11, 9, 10, 1000>> => ReportedOutliers(c) = <<1000>>
                /\ series = <<10, 11, 9, 10, 12>> => ReportedOutliers(c) = <<>>


\* the lists of kpi_data['categories'] that hold the header of column c
CategoriesOf(c) ==
    IF ~Has(analysis_results.kpi_analysis, sheet_name) THEN {}
    ELSE LET categories == analysis_results.kpi_analysis[sheet_name].categories
         IN  {category \in KpiCategories :
                 \E k \in 1..Len(categories[category]) : categories[category][k] = df[c].name}

\* the keyword lists in the order revenue, profit, cost, growth
KeywordLists ==
    <<[category |-> "revenue", keywords |-> revenue_keywords],
      [category |-> "profit", keywords |-> profit_keywords],
      [category |-> "costs", keywords |-> cost_keywords],
      [category |-> "growth", keywords |-> growth_keywords]>>

\* the lists with a keyword in the lowercased header of column c
MatchingLists(c) ==
    {i \in 1..4 : AnyKeyword(KeywordLists[i].keywords, LowerText(df[c].name))}

\* C19 (SpecSheet): every column is in at most one KPI category; a column
\* whose lowercased header contains a keyword is in the first of revenue,
\* profit, cost, growth that has such a keyword, so "revenue_growth" is
\* under revenue and not under growth; a numeric column whose header has
\* no keyword is under "other".
C19_FirstCategoryWins ==
    Ran("kpis") =>
        \A c \in 1..Len(df) :
            /\ Cardinality(CategoriesOf(c)) <= 1
            /\ MatchingLists(c) # {} =>
                  CategoriesOf(c) = {KeywordLists[SetMin(MatchingLists(c))].category}
            /\ df[c].name = <<"r", "e", "v", "e", "n", "u", "e", "_", "g", "r", "o", "w", "t", "h">> =>
                  CategoriesOf(c) = {"revenue"}
            /\ MatchingLists(c) = {} /\ c \in NumericCols(df) => CategoriesOf(c) = {"other"}

\* a sheet with the column "revenue_growth", whose header has keywords of
\* two lists and which is under revenue, and a numeric column under "other"
C19_Witness ==
    /\ Ran("kpis")
    /\ \E c1, c2 \in 1..Len(df) :
          /\ df[c1].name = <<"r", "e", "v", "e", "n", "u", "e", "_", "g", "r", "o", "w", "t", "h">>
          /\ MatchingLists(c1) = {1, 4}
          /\ CategoriesOf(c1) = {"revenue"}
          /\ MatchingLists(c2) = {}
          /\ c2 \in NumericCols(df)
          /\ CategoriesOf(c2) = {"other"}


\* the number of negative values in the column at position c
NegativesOf(c) ==
    LET series == Dropna(df[c].values)
    IN  Cardinality({i \in 1..Len(series) : series[i] < 0})

\* C20 (SpecSheet): for every numeric column of the sheet with at least
\* one negative value the insights of the sheet include the insight on
\* negative values for that column, with the number of negative values.
C20_NegativesFlagged ==
    Ran("insights") =>
        \A c \in NumericCols(df) :
            NegativesOf(c) > 0 =>
                \E k \in 1..Len(analysis_results.business_insights) :
                    analysis_results.business_insights[k] =
                        [kind |-> "negative", col |-> df[c].name, negative_count |-> NegativesOf(c)]


\* the headers with an entry in the trend summary and in the anomaly
\* summary of the sheet
TrendNames ==
    IF Has(analysis_results.trend_analysis, sheet_name)
    THEN DOMAIN analysis_results.trend_analysis[sheet_name].trends ELSE {}
AnomalyNames ==
    IF Has(analysis_results.anomaly_detection, sheet_name)
    THEN DOMAIN analysis_results.anomaly_detection[sheet_name].anomalies ELSE {}

\* the number of non-missing values of the column at position c
NonMissing(c) == Cardinality({i \in 1..Len(df[c].values) : df[c].values[i] # NaN})

\* C21 (SpecSheet): a column in the trend summary of a sheet has at least
\* three non-missing values and a column in its anomaly summary at least
\* five and at least one outlier; a sheet without such a column has no
\* summary, not an empty one.
C21_MinimumSamples ==
    /\ \A c \in 1..Len(df) :
          /\ df[c].name \in TrendNames => c \in NumericCols(df) /\ NonMissing(c) >= 3
          /\ df[c].name \in AnomalyNames =>
                /\ c \in NumericCols(df)
                /\ NonMissing(c) >= 5
                /\ ReportedOutliers(c) # <<>>
                /\ analysis_results.anomaly_detection[sheet_name].anomalies[df[c].name].outlier_count
                      = Len(ReportedOutliers(c))
    /\ Has(analysis_results.trend_analysis, sheet_name) => TrendNames # {}
    /\ Has(analysis_results.anomaly_detection, sheet_name) => AnomalyNames # {}

\* a sheet after its analyses whose column of six numbers is in both
\* summaries
C21_Witness ==
    /\ Ran("anomalies")
    /\ \E c \in NumericCols(df) :
          /\ NonMissing(c) = 6
          /\ df[c].name \in TrendNames \cap AnomalyNames


(***************************************************************************)
(* Properties of the handlers, continued.                                  *)
(***************************************************************************)
\* C22 (Spec): a query calls the generation service at most once; when
\* that call fails the query answers 500 with the service's message in its
\* detail, and the chat history is left as it was: neither the question
\* nor an answer is written.
C22_GenerationFailureSurfaced ==
    [][/\ request'.op = "query" => Len(calls'.generate) <= 1
       /\ \A user_email \in Emails, max_results \in 1..MaxResults :
             (/\ Query(user_email, Question0, max_results, 0, "friendly", TRUE, None)
              /\ calls'.generate # <<>>)
                 => /\ Len(calls'.generate) = 1
                    /\ response'.status = 500
                    /\ \A i \in 1..Len(GenerationError) :
                          InText(GenerationError[i], response'.detail)
                    /\ chat_messages' = chat_messages]_vars

\* a query that found a chunk and reached the generation service, whose
\* call failed: its chat session exists and the history holds no message
C22_Witness ==
    /\ request.op = "query"
    /\ Len(calls.generate) = 1
    /\ Len(LastQuery.ids) = 1
    /\ response.status = 500
    /\ InText("model overloaded", response.detail)
    /\ chat_sessions # {}
    /\ chat_messages = <<>>


\* the distance the vector index returned for the i-th source of the last
\* query
DistanceOfSource(i) ==
    Distance(LastQuery.query_embedding,
             (CHOOSE e \in collection : e.id = LastQuery.ids[i]).embedding)

\* C23 (SpecAnswer): the similarity of every source is max(0, 1 - d) for
\* the distance d the index returned for its chunk, which is what the
\* source reports to three decimals; it lies in [0, 1], and it is 0, not
\* negative, for every d >= 1.
C23_ClampedSimilarity ==
    (request.op = "query" /\ response.status = 200) =>
        \A i \in 1..Len(Sources) :
            LET d == DistanceOfSource(i)
                similarity == IF Unit - d > 0 THEN Unit - d ELSE 0
            IN  /\ 0 <= d /\ d <= 2 * Unit
                /\ Sources[i].confidence = Round3(similarity, 1)
                /\ 0 <= Sources[i].confidence /\ Sources[i].confidence <= Unit
                /\ d >= Unit => Sources[i].confidence = 0

\* a query with three sources: one at distance 0, one at a distance below
\* 1 with four decimals, one at a distance above 1
C23_Witness ==
    /\ request.op = "query"
    /\ response.status = 200
    /\ Len(Sources) = 3
    /\ \E i, j, k \in 1..3 :
          /\ DistanceOfSource(i) = 0 /\ Sources[i].confidence = Unit
          /\ DistanceOfSource(j) \in 1..(Unit - 1) /\ DistanceOfSource(j) % 10 # 0
          /\ DistanceOfSource(k) > Unit /\ Sources[k].confidence = 0


\* the file of the last upload request
UploadedFile ==
    CHOOSE f \in KnownFiles :
        f.filename = request.filename /\ f.content_type = request.content_type

\* the chunks chunk_text returned to the last upload
UploadedChunks == ChunksOfFile[UploadedFile][LastAdvanced]

\* C24 (SpecIngest): an upload whose extraction succeeded and whose text
\* gives no chunk answers 200 with chunks_created = 0, stores a document
\* row with chunk_count 0, and makes no embedding call and no write to the
\* vector index.
C24_EmptyUploadSucceeds ==
    (/\ request.op = "upload"
     /\ ~Has(LastMetadata, "error")
     /\ UploadedChunks = <<>>)
        => /\ response.status = 200
           /\ response.body.chunks_created = 0
           /\ \E d \in documents : d.id = response.body.document_id /\ d.chunk_count = 0
           /\ calls.embed = 0
           /\ calls.add = 0
           /\ ~\E e \in collection : e.metadata.doc_id = response.body.document_id
           /\ ~\E c \in document_chunks : c.document_id = response.body.document_id

\* the upload of empty.txt, after an upload that stored chunks
C24_Witness ==
    /\ request.op = "upload"
    /\ request.filename = <<"empty", "txt">>
    /\ UploadedChunks = <<>>
    /\ response.status = 200
    /\ response.body.document_id = 2
    /\ collection # {}


(***************************************************************************)
(* Properties of chunk_text, continued.                                    *)
(***************************************************************************)
\* the positions of the markers that lie in the window [st, st + cs)
MarkersInside(t, cs, st) == {p \in st..(st + cs - 3) : MarkerAt(t, p)}

\* C25 (SpecChunk): a window that holds a marker ends at the position of a
\* marker inside it (the resulting length is then below chunk_size, so
\* within 1.5 x chunk_size); a window without a marker ends where the
\* backward scan for a sentence terminator puts it.
C25_SnapsToMarkerInside ==
    \A st \in visited :
        (st >= 0 /\ ~IterRaises(text, chunk_size, st)) =>
            IF MarkersInside(text, chunk_size, st) # {}
            THEN WindowEnd(text, chunk_size, st) \in MarkersInside(text, chunk_size, st)
            ELSE WindowEnd(text, chunk_size, st) =
                    IF st + chunk_size < Len(text)
                    THEN SentenceEnd(text, chunk_size, st)
                    ELSE st + chunk_size


\* the positions of the markers at or after the default end of the window
MarkersAfter(t, cs, st) == {p \in (st + cs)..(Len(t) - 3) : MarkerAt(t, p)}

\* C25 (SpecChunk), amended: for a window that holds a marker the next
\* marker at or after the default end start + chunk_size is looked up; if
\* there is one less than 1.5 x chunk_size after start the window ends at
\* its position (the window is extended up to it), otherwise the window
\* keeps the default end and no backward scan is made.  Only a window
\* without a marker whose default end lies before the end of the text is
\* ended by the backward scan.
C25_SnapsToNextMarker ==
    \A st \in visited :
        (st >= 0 /\ ~IterRaises(text, chunk_size, st)) =>
            LET end == st + chunk_size
                after == MarkersAfter(text, chunk_size, st)
                near == after # {} /\ 2 * (SetMin(after \cup {Len(text)}) - st) < 3 * chunk_size
            IN  IF MarkersInside(text, chunk_size, st) # {}
                THEN WindowEnd(text, chunk_size, st) = IF near THEN SetMin(after) ELSE end
                ELSE WindowEnd(text, chunk_size, st) =
                        IF end < Len(text) THEN SentenceEnd(text, chunk_size, st) ELSE end

\* a text whose first window holds a marker and was extended to the next
\* marker, beyond the default end
C25_Witness ==
    /\ 0 \in visited
    /\ MarkersInside(text, chunk_size, 0) # {}
    /\ WindowEnd(text, chunk_size, 0) > chunk_size
    /\ MarkerAt(text, WindowEnd(text, chunk_size, 0))
    /\ chunks # <<>>


(***************************************************************************)
(* Properties of the two stores.                                           *)
(***************************************************************************)
\* the chunk rows and the index entries of a document
RowsOf(doc_id) == {c \in document_chunks : c.document_id = doc_id}
EntriesOf(doc_id) == {e \in collection : e.metadata.doc_id = doc_id}

\* C26 (SpecIngest): after an upload that answers 200 the chunk_count of
\* its document row is the number of its chunk rows and of its index
\* entries, and for every index i below it the entry doc_<id>_chunk_<i>
\* holds the text of chunk row i and names the uploaded filename, i, the
\* document id, the id of the uploading user and the file type of the row.
C26_StoresAgree ==
    (request.op = "upload" /\ response.status = 200) =>
        LET doc_id == response.body.document_id
        IN  \E d \in documents :
               /\ d.id = doc_id
               /\ d.chunk_count = response.body.chunks_created
               /\ Cardinality(RowsOf(doc_id)) = d.chunk_count
               /\ Cardinality(EntriesOf(doc_id)) = d.chunk_count
               /\ \A i \in 0..(d.chunk_count - 1) :
                     \E row \in RowsOf(doc_id), e \in EntriesOf(doc_id) :
                        /\ row.chunk_index = i
                        /\ e.id = <<doc_id, i>>
                        /\ e.document = row.chunk_text
                        /\ e.metadata.source = request.filename
                        /\ e.metadata.chunk_id = i
                        /\ e.metadata.user_id = UserIdOf(request.user_email)
                        /\ e.metadata.user_id = d.user_id
                        /\ e.metadata.file_type = d.file_type

\* a successful upload of a file of two chunks as the second document
C26_Witness ==
    /\ request.op = "upload"
    /\ response.status = 200
    /\ response.body.document_id = 2
    /\ response.body.chunks_created = 2
    /\ Cardinality(EntriesOf(2)) = 2


\* C27 (SpecIngest): after a delete that answers 200 no chunk row and no
\* index entry of the document remains, and every source a later query
\* returns comes from a document that is still stored.
C27_DeleteCascades ==
    /\ (request.op = "delete" /\ response.status = 200) =>
          /\ RowsOf(request.doc_id) = {}
          /\ EntriesOf(request.doc_id) = {}
    /\ (request.op = "query" /\ calls.query # <<>>) =>
          \A i \in 1..Len(LastQuery.ids) :
              \E d \in documents : d.id = LastQuery.ids[i][1]



\* postgres_manager.py 168-190: the rows GET /documents lists for a user
get_user_documents(user_id) == {d \in documents : d.user_id = user_id}

\* the id save_document_metadata gave the document of the last upload
LastDocId == serial.documents - 1

\* C28 (SpecIngest): when the embedding call fails at chunk i of an upload
\* of N chunks, the upload answers 500 and nothing is rolled back: the
\* document row stays with chunk_count = N, all N chunk rows stay, the
\* index holds the entries of the chunks 0..i-1 of the document and no
\* other entry of it, and the owner's document list still has the document.
C28_NoRollback ==
    (request.op = "upload" /\ calls.embed > calls.add) =>
        LET N == Len(UploadedChunks)
            i == calls.add
        IN  /\ response.status = 500
            /\ i < N
            /\ \E d \in get_user_documents(UserIdOf(request.user_email)) :
                  /\ d.id = LastDocId
                  /\ d.filename = request.filename
                  /\ d.chunk_count = N
            /\ RowsOf(LastDocId) = ChunkRows(LastDocId, UploadedChunks)
            /\ Cardinality(RowsOf(LastDocId)) = N
            /\ {e.id : e \in EntriesOf(LastDocId)} = {<<LastDocId, j>> : j \in 0..(i - 1)}
            /\ \A e \in EntriesOf(LastDocId) : e.document = UploadedChunks[e.id[2] + 1]

\* an upload of two chunks whose second embedding call failed
C28_Witness ==
    /\ request.op = "upload"
    /\ response.status = 500
    /\ calls.embed = 2
    /\ calls.add = 1
    /\ Len(UploadedChunks) = 2
    /\ Cardinality(RowsOf(LastDocId)) = 2
    /\ Cardinality(EntriesOf(LastDocId)) = 1
    /\ \E d \in documents : d.id = LastDocId /\ d.chunk_count = 2

(***************************************************************************)
(* get_or_create_user, statement by statement.  Each call runs on its own  *)
(* connection in its own transaction, which the `with` block commits on    *)
(* exit (postgres_manager.py 29).  At the default isolation level a SELECT *)
(* sees the committed rows only, and an INSERT of an e-mail that another   *)
(* transaction has inserted waits for that transaction and then fails on   *)
(* the UNIQUE constraint of users.email (create_tables.py 29), so INSERT   *)
(* and commit are one step here.  The handlers of one process call the     *)
(* function without yielding, which is the atomic get_or_create_user       *)
(* above; the steps below are the calls of several processes.              *)
(***************************************************************************)
Returned(id) == [status |-> "returned", id |-> id]
UniqueViolation == [status |-> "raised", id |-> 0]

\* postgres_manager.py 32-36: SELECT id FROM users WHERE email = %s; fetchone()
SelectUser(c, email) ==
    /\ connections[c].pc = "idle"
    /\ connections' = [connections EXCEPT ![c] =
          [pc |-> "selected", email |-> email,
           result |-> IF UserRows(email) # {}
                      THEN (CHOOSE u \in UserRows(email) : TRUE).id
                      ELSE 0,
           outcome |-> NoOutcome]]
    /\ UNCHANGED <<storeVars, collection, request, response, calls, uploader, chunkVars, sheetVars>>

\* postgres_manager.py 38-44: the row was found; UPDATE last_login, return id
UpdateLogin(c) ==
    /\ connections[c].pc = "selected"
    /\ connections[c].result # 0
    /\ connections' = [connections EXCEPT ![c].pc = "idle",
                                          ![c].outcome = Returned(connections[c].result)]
    /\ UNCHANGED <<storeVars, collection, request, response, calls, uploader, chunkVars, sheetVars>>

\* postgres_manager.py 45-51: no row was found; INSERT ... RETURNING id.
\* The SERIAL is advanced by a failed INSERT too.
InsertUser(c) ==
    LET email == connections[c].email
    IN  /\ connections[c].pc = "selected"
        /\ connections[c].result = 0
        /\ serial' = [serial EXCEPT !.users = serial.users + 1]
        /\ IF UserRows(email) # {}
           THEN /\ users' = users
                /\ connections' = [connections EXCEPT ![c].pc = "idle",
                                                      ![c].outcome = UniqueViolation]
           ELSE /\ users' = users \cup {[id |-> serial.users, email |-> email]}
                /\ connections' = [connections EXCEPT ![c].pc = "idle",
                                                      ![c].outcome = Returned(serial.users)]
        /\ UNCHANGED <<documents, document_chunks, chat_sessions, chat_messages,
                       collection, request, response, calls, uploader, chunkVars, sheetVars>>

UsersNext ==
    \/ \E c \in Callers, email \in Emails : SelectUser(c, email)
    \/ \E c \in Callers : UpdateLogin(c)
    \/ \E c \in Callers : InsertUser(c)

SpecUsers == Init /\ [][UsersNext]_vars

\* C29 (SpecUsers): under every interleaving of the calls no call raises,
\* every call returns the id of the one users row of its e-mail, and no
\* e-mail has two rows.
C29_Idempotent ==
    /\ \A c \in Callers :
          /\ connections[c].outcome.status # "raised"
          /\ connections[c].outcome.status = "returned" =>
                \E u \in users : u.email = connections[c].email /\ u.id = connections[c].outcome.id
    /\ \A u1, u2 \in users : u1.email = u2.email => u1 = u2



(***************************************************************************)
(* chunk_text with the parameters of the upload path, main.py 193-195:     *)
(* chunk_size 1500 or 1000, overlap 300, on texts longer than a window.    *)
(* A text is a run of "a" with a terminator or a marker at every           *)
(* `period`-th position from `offset` on (a period of the text's length    *)
(* gives a single one).                                                    *)
(***************************************************************************)
MaxUploadLen == 2600

UploadLengths == {0, TextChunkSize, TextChunkSize + 1, ExcelChunkSize + 1, MaxUploadLen}
UploadPeriods == {1, Lookback, 502, MaxUploadLen}
UploadOffsets ==
    {0, 250, TextChunkSize - Lookback, TextChunkSize - Lookback + 1, TextChunkSize - 1,
     ExcelChunkSize - Lookback + 1}

\* position p (0-based) is `offset` plus a multiple of `period`
Stamped(p, period, offset) == p >= offset /\ (p - offset) % period = 0

UploadText(n, symbol, period, offset) ==
    [i \in 1..n |->
        IF symbol = "."
        THEN IF Stamped(i - 1, period, offset) THEN "." ELSE "a"
        ELSE IF \E k \in 0..2 : Stamped(i - 1 - k, period, offset) THEN "=" ELSE "a"]

UploadTexts ==
    {UploadText(n, symbol, period, offset) :
        n \in UploadLengths, symbol \in {".", "="},
        period \in UploadPeriods, offset \in UploadOffsets}

\* main.py 193-195: chunks = chunk_text(text, chunk_size=..., overlap=300)
UploadChunkInit ==
    /\ text \in UploadTexts
    /\ chunk_size \in {ExcelChunkSize, TextChunkSize}
    /\ overlap = UploadOverlap
    /\ start = 0
    /\ chunks = <<>>
    /\ pc = "loop"
    /\ visited = {}
    /\ ApiIdle
    /\ SheetIdle

UploadChunkNext == ChunkLoop \/ ChunkReturn

SpecUploadChunk == UploadChunkInit /\ [][UploadChunkNext]_vars

\* C30 (SpecUploadChunk): with chunk_size 1500 or 1000 and overlap 300, at
\* every loop head start is not negative and is greater than every value it
\* had at an earlier loop head, whichever rule ended the windows before it
\* (marker snap, sentence snap or default end); no pass raises, and every
\* pass that is still to come moves start forward.
C30_StartAdvances ==
    /\ pc # "raised"
    /\ start >= 0
    /\ \A v \in visited :
          /\ 0 <= v
          /\ v < start
          /\ NextStart(text, chunk_size, overlap, v) > v
    /\ (pc = "loop" /\ start < Len(text)) =>
          /\ ~IterRaises(text, chunk_size, start)
          /\ NextStart(text, chunk_size, overlap, start) > start

\* the rule that ended the window starting at st
SnappedToMarker(st) ==
    /\ HasMarker(PySlice(text, st, st + chunk_size))
    /\ WindowEnd(text, chunk_size, st) > st + chunk_size
SnappedToSentence(st) ==
    /\ ~HasMarker(PySlice(text, st, st + chunk_size))
    /\ WindowEnd(text, chunk_size, st) < st + chunk_size

\* a returned segmentation with chunk_size 1000 in which one window was cut
\* back to a sentence end at the far end of the scan and a later window
\* had the default end
C30_Witness ==
    /\ pc = "done"
    /\ chunk_size = TextChunkSize
    /\ Cardinality(visited) >= 3
    /\ \E v \in visited :
          /\ SnappedToSentence(v)
          /\ WindowEnd(text, chunk_size, v) = v + chunk_size - Lookback + 2
    /\ \E v \in visited : WindowEnd(text, chunk_size, v) = v + chunk_size

=============================================================================
